---------------------------- MODULE Spec2Model ----------------------------
(***************************************************************************)
(* The crawling engine of Master-Data-Scraper as a state machine:          *)
(*   - WebCrawler.crawl              (src/core/crawler.py)                 *)
(*   - SmartWebCrawler.crawl         (src/core/smart_crawler.py)           *)
(*   - FastCrawler.crawl_concurrent  (src/core/fast_crawler.py)            *)
(*   - AsyncFastCrawler.crawl_async  (src/core/fast_crawler.py)            *)
(*   - RateLimiter.wait_if_needed    (src/utils/rate_limiter.py)           *)
(* One crawler object is constructed in Init (the engine and its           *)
(* constructor arguments are drawn from small sets) and one run is         *)
(* followed from the call to its return.  The web is the environment: a   *)
(* fetch either fails or returns a page whose href list is drawn from      *)
(* LinkLists.                                                              *)
(***************************************************************************)
EXTENDS Integers, Sequences, FiniteSets, TLC

VARIABLES
    engine,                 \* which crawler class was constructed
    max_pages,              \* constructor argument
    max_depth,              \* constructor argument
    max_workers,            \* FastCrawler.max_workers / number of async workers
    follow_external_links,  \* WebCrawler constructor argument
    min_relevance_score,    \* SmartWebCrawler constructor argument (hundredths)
    pc,                     \* position of the thread that called crawl
    visited_urls,           \* self.visited_urls
    queued_urls,            \* self.queued_urls / self.queue : <<url, depth>> items
    results,                \* self.results
    stats,                  \* self.stats (CrawlStats)
    cur,                    \* (url, depth) of the loop iteration in progress
    result,                 \* the CrawlResult a page processor has returned
    start_domain,           \* WebCrawler._start_domain (unset: NoDomain)
    allowed_domains,        \* WebCrawler.allowed_domains (None: NoDomains)
    seed_analyzed,          \* SmartWebCrawler.seed_analyzed
    futures,                \* FastCrawler: the list `futures` of crawl_concurrent
    workers,                \* AsyncFastCrawler: the pages _worker tasks are fetching
    unfinished,             \* asyncio.Queue._unfinished_tasks
    raised,                 \* exception that left crawl(), "none" otherwise
    last_outcome,           \* history: outcome of the latest fetch call
    fetch_calls,            \* history: number of fetch calls per URL fetched
    handed,                 \* history: URLs marked visited and given to a worker
    queued_scores,          \* history: (link, score) of the links queued for
                            \* the page processed latest
    default_delay,          \* RateLimiter.default_delay (ticks)
    domain_delays,          \* RateLimiter.domain_delays
    now,                    \* RateLimiter: the clock (time.time())
    last_request_time,      \* RateLimiter.last_request_time
    lock,                   \* RateLimiter.lock : the set of threads holding it
    callers,                \* RateLimiter: state of every calling thread
    returns,                \* history: per domain, the time of the latest return
                            \* of wait_if_needed and a bit flipped at each return
    clock,                  \* the clock (time.time()) of Cache and BaseScraper
    default_ttl,            \* Cache.default_ttl
    max_size_bytes,         \* Cache.max_size_bytes
    metadata,               \* Cache.metadata : entries (in insertion order), total_size
    cache_files,            \* the <key>.pkl files of Cache.cache_dir
    cache_last,             \* history: the latest Cache call and what it returned
    human_behavior,         \* BaseScraper.human_behavior
    fetch_pc,               \* position of the thread that called fetch
    fetch_url,              \* the argument url of fetch
    attempt,                \* the loop variable `attempt` of fetch
    response,               \* the latest response of self.session.request
    response_time,          \* history: when that response arrived
    delay,                  \* the local `delay` of fetch
    requests_sent,          \* history: the number of self.session.request calls
    scraper_stats,          \* BaseScraper.stats
    fetch_raised,           \* the exception that left fetch
    backoff,                \* an ExponentialBackoff object
    backoff_delays,         \* history: the delays of the get_delay calls since
                            \* construction or the latest reset
    adaptive,               \* AdaptiveRateLimiter: min_delay, max_delay, backoff_factor
    success_count,          \* AdaptiveRateLimiter.success_count
    error_count,            \* AdaptiveRateLimiter.error_count
    streak,                 \* history: per domain, the record_success calls since
                            \* the latest record_error or lowering of its delay
    adaptive_last,          \* history: the latest record_success / record_error call
    score_in,               \* RelevanceAnalyzer: the arguments of the call under way
    score_out,              \* RelevanceAnalyzer: what calculate_relevance_score returned
    blocked_domains,        \* WebCrawler.blocked_domains, each domain as its labels
    page_hrefs,             \* the hrefs (for SmartWebCrawler the anchors) of the
                            \* start page, where a crawl of one given web is followed
    use_stealth,            \* BaseScraper.use_stealth
    memory_cache,           \* BaseScraper._memory_cache: cache key -> cached time
    fetch_log,              \* history: the latest completed call of fetch
    max_concurrent,         \* RequestQueue.max_concurrent
    active_requests,        \* RequestQueue.active_requests
    rq_threads,             \* where each thread that uses the RequestQueue is
    runs                    \* history: the crawl() calls made on the instance
                            \* after its first

cfgVars == <<engine, max_pages, max_depth, max_workers, follow_external_links,
             min_relevance_score>>
crawlVars == <<cfgVars, pc, visited_urls, queued_urls, results, stats, cur, result,
               start_domain, allowed_domains, seed_analyzed, futures, workers,
               unfinished, raised, last_outcome, fetch_calls, handed,
               queued_scores>>
rlVars == <<default_delay, domain_delays, now, last_request_time, lock,
           callers, returns>>
cacheVars == <<default_ttl, max_size_bytes, metadata, cache_files, cache_last>>
fetchVars == <<human_behavior, fetch_pc, fetch_url, attempt, response,
              response_time, delay, requests_sent, scraper_stats, fetch_raised>>
backoffVars == <<backoff, backoff_delays>>
adaptiveVars == <<adaptive, success_count, error_count, streak, adaptive_last>>
scoreVars == <<score_in, score_out>>
webVars == <<blocked_domains, page_hrefs>>
sessVars == <<use_stealth, memory_cache, fetch_log>>
rqVars == <<max_concurrent, active_requests, rq_threads>>
restVars == <<sessVars, rqVars, runs>>
moreVars == <<scoreVars, webVars, restVars>>
baseVars == <<crawlVars, rlVars, clock, cacheVars, fetchVars, backoffVars,
              adaptiveVars>>
utilVars == <<clock, cacheVars, fetchVars, backoffVars, adaptiveVars, moreVars>>
vars == <<crawlVars, rlVars, utilVars,
                   queued_scores>>

---------------------------------------------------------------------------
(* Bounds of the model                                                     *)

\* a fetched page carries at most MaxLinks hrefs
MaxLinks == 2
\* max_pages is drawn from 1..MaxPagesBound
MaxPagesBound == 3
\* max_depth is drawn from 0..MaxDepthBound
MaxDepthBound == 1
\* max_workers is drawn from 1..MaxWorkersBound
MaxWorkersBound == 2

---------------------------------------------------------------------------
(* URLs.  A URL is its host and path plus the three spelling variations    *)
(* that _normalize_url removes: upper-case letters, a trailing slash and   *)
(* a fragment.                                                             *)

SeedHost == "example.com"
OtherHost == "other.org"
Hosts == {SeedHost, OtherHost}

MkUrl(h, p, up, sl, fr) ==
    [host |-> h, path |-> p, upper |-> up, slash |-> sl, frag |-> fr]

Plain(h, p) == MkUrl(h, p, FALSE, FALSE, FALSE)

\* a URL spelled with all three variations, e.g. HTTP://Example.com/P/#top
Variant(h, p) == MkUrl(h, p, TRUE, TRUE, TRUE)

\* the pages of the modelled web: the start page, a page below it and a
\* page of another host
SeedPath == "/news"
SubPath == "/news/a"
OtherPath == "/x"

\* an <a href> of a page: its absolute URL (after urljoin) and the relevance
\* score (hundredths) its text and context earn before and after the
\* relevance analyzer has seen the seed page
Anchor(href, before, after) ==
    [href |-> href, before |-> before, after |-> after]

\* the anchors of the modelled web: to the start page in its second spelling,
\* to the sub-page (a relevant and an irrelevant one), to the other host
Anchors ==
    { Anchor(Variant(SeedHost, SeedPath), 33, 90),
      Anchor(Plain(SeedHost, SubPath), 33, 80),
      Anchor(Plain(SeedHost, SubPath), 12, 20),
      Anchor(Plain(OtherHost, OtherPath), 33, 50) }

\* the URLs that pages of the modelled web link to
Hrefs == { a.href : a \in Anchors }

\* the spellings under which the caller may pass the start URL
Seeds == { Plain(SeedHost, SeedPath), Variant(SeedHost, SeedPath) }

\* a start URL that validators.url rejects, e.g. http://exa mple.com/news
MalformedSeed == Plain("exa mple.com", SeedPath)

\* a host of an advertising network, and the labels of each host name
AdHost == "ads.doubleclick.net"
HostLabels ==
    (SeedHost :> <<"example", "com">>) @@ (OtherHost :> <<"other", "org">>)
       @@ (AdHost :> <<"ads", "doubleclick", "net">>)

\* the links of the start page where one given web is crawled: to the page
\* below it, to the advertising host, to the other host
MaxPageLinks == 3
WebHrefs ==
    { Plain(SeedHost, SubPath), Plain(AdHost, OtherPath),
      Plain(OtherHost, OtherPath) }

\* the href lists a fetched page may carry, duplicates included
LinkLists == UNION { [1..n -> Hrefs] : n \in 0..MaxLinks }

\* the same with each anchor's scores, for the crawler that reads them
AnchorLists == UNION { [1..n -> Anchors] : n \in 0..MaxLinks }

\* urlparse(url).netloc
netloc(u) == u.host

\* the anchors of a page that a crawler reads: links are extracted only
\* from pages at a depth below max_depth
anchors_read(depth) == IF depth < max_depth THEN LinkLists ELSE {<<>>}

\* variant for sensitivity analysis: a normalization that keeps the fragment
normalize_url_keeping_fragment(u) ==
    MkUrl(u.host, u.path, FALSE, FALSE, u.frag)

\* WebCrawler._normalize_url: lower-cases, strips trailing slashes from the
\* path, drops the fragment
WebCrawler_normalize_url(u) ==
    MkUrl(u.host, u.path, FALSE, FALSE, FALSE)

\* FastCrawler._normalize_url: scheme://netloc + path.rstrip('/') [+ ?query]
\* of the lower-cased URL; the fragment is not copied
FastCrawler_normalize_url(u) ==
    MkUrl(u.host, u.path, FALSE, FALSE, FALSE)

MapSeq(f(_), s) == [i \in 1..Len(s) |-> f(s[i])]

\* s[:n]
Take(s, n) == SubSeq(s, 1, IF Len(s) < n THEN Len(s) ELSE n)

\* a plausible slip: the head of the deque is read and left in place
popleft_peek(q) == q

\* the deque after `url, depth = self.queued_urls.popleft()` of
\* WebCrawler.crawl and `self.queue.popleft()` of FastCrawler
popleft(q) == Tail(q)


---------------------------------------------------------------------------
(* Values                                                                  *)

NoDomain == "<unset>"
NoDomains == {"<None>"}
NoUrl == MkUrl("<none>", "<none>", FALSE, FALSE, FALSE)
NoCur == [url |-> NoUrl, depth |-> -1]
NoError == "<None>"
NoResult == [url |-> NoUrl, depth |-> -1, links |-> <<>>, error |-> NoError]

\* what one call of the fetch function does: return a page, raise, return an
\* empty response, or raise RateLimitError after the 429 retries are used up
FailOutcomes == {"exception", "empty response", "rate limit 429"}

\* CrawlResult(url=url, depth=depth): links = [], error = None
CrawlResult(url, depth) ==
    [url |-> url, depth |-> depth, links |-> <<>>, error |-> NoError]

\* CrawlResult.is_successful
is_successful(r) == r.error = NoError

\* a CrawlResult as self.results is modelled to hold it: its links, title and
\* content are not kept once the crawl loop has used them
Recorded(r) == [url |-> r.url, depth |-> r.depth, error |-> r.error]

\* CrawlStats()
CrawlStats ==
    [total_pages |-> 0, successful_pages |-> 0, failed_pages |-> 0,
     total_links_found |-> 0]

\* variant for sensitivity analysis: a failed page that is not counted
count_failed_lost(st) == st

\* self.stats.failed_pages += 1
count_failed(st) == [st EXCEPT !.failed_pages = @ + 1]

\* variant for sensitivity analysis: a successful page counted twice
count_successful_twice(st) == [st EXCEPT !.successful_pages = @ + 2]

\* self.stats.successful_pages += 1
count_successful(st) == [st EXCEPT !.successful_pages = @ + 1]

\* one more call of the fetch function for url
CountFetch(url) ==
    fetch_calls' = IF url \in DOMAIN fetch_calls
                      THEN [fetch_calls EXCEPT ![url] = @ + 1]
                      ELSE fetch_calls @@ (url :> 1)


---------------------------------------------------------------------------
(* WebCrawler (src/core/crawler.py)                                        *)

\* validators.url(url): every URL but the malformed start URL is well-formed
well_formed(u) == u.host # MalformedSeed.host

\* InputValidator.validate_url returns a pair: (False, message) for a URL of
\* invalid format, (True, url) when the HEAD request it sends is answered
\* below 400, (False, message) otherwise.  The URLs carry their scheme.
validate_url(u, reachable) ==
    IF ~well_formed(u) THEN <<FALSE, "Invalid URL format">>
    ELSE IF reachable THEN <<TRUE, u>> ELSE <<FALSE, "URL is not accessible">>

\* Python truth value of a tuple: true iff it is not empty
Truthy(t) == Len(t) # 0

\* parsed.netloc.split('.')
domain_parts(u) ==
    IF netloc(u) \in DOMAIN HostLabels THEN HostLabels[netloc(u)] ELSE <<netloc(u)>>

\* variant for sensitivity analysis: no domain is taken as blocked
blocked_never(u) == FALSE

\* the blocklist test of _is_valid_url: the domain or one of its parent
\* domains is in self.blocked_domains
blocked(u) ==
    \E i \in 1..Len(domain_parts(u)) :
       SubSeq(domain_parts(u), i, Len(domain_parts(u))) \in blocked_domains

\* WebCrawler._is_valid_url on the modelled web (http/https URLs, no
\* excluded pattern, no skipped extension or asset path): what remains is
\* the blocklist and the domain restriction
is_valid_url(u, base_domain) ==
    /\ \A reachable \in BOOLEAN : Truthy(validate_url(u, reachable))
    /\ ~blocked(u)
    /\ IF ~follow_external_links
          THEN netloc(u) = base_domain
          ELSE allowed_domains = NoDomains \/ netloc(u) \in allowed_domains

\* WebCrawler._should_follow_url, with _start_domain as it is when the
\* link is examined
should_follow_url(u, sd) ==
    /\ allowed_domains = NoDomains \/ netloc(u) \in allowed_domains
    /\ follow_external_links \/ sd = NoDomain \/ netloc(u) = sd

\* _start_domain after _extract_links has run on a page of base_url
start_domain_after(base_url) ==
    IF start_domain = NoDomain THEN netloc(base_url) ELSE start_domain

\* WebCrawler._extract_links: each href normalized, kept when not visited,
\* valid and to be followed; order and duplicates kept
extract_links(hrefs, base_url) ==
    SelectSeq(MapSeq(WebCrawler_normalize_url, hrefs),
              LAMBDA u : /\ u \notin visited_urls
                         /\ is_valid_url(u, netloc(base_url))
                         /\ should_follow_url(u, start_domain_after(base_url)))

\* a plausible slip: the links are put in front of the frontier
enqueue_links_at_front(links, depth) ==
    MapSeq(LAMBDA l : <<l, depth + 1>>,
           SelectSeq(links, LAMBDA l : l \notin visited_urls))
      \o queued_urls

\* the `for link in result.links` loop of WebCrawler.crawl
enqueue_links(links, depth) ==
    queued_urls \o
      MapSeq(LAMBDA l : <<l, depth + 1>>,
             SelectSeq(links, LAMBDA l : l \notin visited_urls))

\* variant for sensitivity analysis: a loop that ignores the page budget
web_loop_condition_unbounded == queued_urls # <<>>

\* `while self.queued_urls and len(self.results) < self.max_pages`
web_loop_condition == queued_urls # <<>> /\ Len(results) < max_pages

\* WebCrawler.crawl up to the main loop: state reset, start URL normalized,
\* validated and queued
WC_Crawl(start_url, reachable) ==
    /\ engine = "web" /\ pc = "idle"
    /\ visited_urls' = {}
    /\ results' = <<>>
    /\ stats' = CrawlStats
    /\ IF ~Truthy(validate_url(WebCrawler_normalize_url(start_url), reachable))
          THEN /\ raised' = "CrawlError" /\ pc' = "raised"
               /\ queued_urls' = <<>>
          ELSE /\ queued_urls' = << <<WebCrawler_normalize_url(start_url), 0>> >>
               /\ pc' = "loop" /\ raised' = raised
    /\ UNCHANGED <<cfgVars, cur, result, start_domain,
                   allowed_domains, seed_analyzed, futures, workers, unfinished,
                   last_outcome, fetch_calls, handed, rlVars, utilVars,
                   queued_scores>>

\* loop head, popleft, `if url in self.visited_urls: continue`
WC_Skip ==
    /\ engine = "web" /\ pc = "loop"
    /\ web_loop_condition
    /\ Head(queued_urls)[1] \in visited_urls
    /\ queued_urls' = popleft(queued_urls)
    /\ UNCHANGED <<cfgVars, pc, visited_urls, results, stats, cur,
                   result, start_domain, allowed_domains, seed_analyzed, futures,
                   workers, unfinished, raised, last_outcome, fetch_calls,
                   handed, rlVars, utilVars,
                   queued_scores>>

\* loop head, popleft, mark as visited, count the page
WC_Visit ==
    /\ engine = "web" /\ pc = "loop"
    /\ web_loop_condition
    /\ Head(queued_urls)[1] \notin visited_urls
    /\ queued_urls' = popleft(queued_urls)
    /\ visited_urls' = visited_urls \cup {Head(queued_urls)[1]}
    /\ stats' = [stats EXCEPT !.total_pages = @ + 1]
    /\ cur' = [url |-> Head(queued_urls)[1], depth |-> Head(queued_urls)[2]]
    /\ pc' = "fetch"
    /\ UNCHANGED <<cfgVars, results, result, start_domain,
                   allowed_domains, seed_analyzed, futures, workers, unfinished,
                   raised, last_outcome, fetch_calls, handed, rlVars, utilVars,
                   queued_scores>>

\* crawl_page, try branch: the fetch returns a page with these hrefs
WC_CrawlPageOk(hrefs) ==
    /\ engine = "web" /\ pc = "fetch"
    /\ cur.depth >= max_depth => hrefs = <<>>
    /\ CountFetch(cur.url)
    /\ last_outcome' = "ok"
    /\ IF cur.depth < max_depth
          THEN /\ result' = [CrawlResult(cur.url, cur.depth) EXCEPT
                               !.links = extract_links(hrefs, cur.url)]
               /\ start_domain' = start_domain_after(cur.url)
               /\ stats' = count_successful(
                               [stats EXCEPT
                                  !.total_links_found =
                                      @ + Len(extract_links(hrefs, cur.url))])
          ELSE /\ result' = CrawlResult(cur.url, cur.depth)
               /\ start_domain' = start_domain
               /\ stats' = count_successful(stats)
    /\ pc' = "append"
    /\ UNCHANGED <<cfgVars, visited_urls, queued_urls, results,
                   cur, allowed_domains, seed_analyzed, futures, workers,
                   unfinished, raised, handed, rlVars, utilVars,
                   queued_scores>>

\* crawl_page, except branch: the fetch raised, or returned nothing
WC_CrawlPageFail(outcome) ==
    /\ engine = "web" /\ pc = "fetch"
    /\ CountFetch(cur.url)
    /\ last_outcome' = outcome
    /\ result' = [CrawlResult(cur.url, cur.depth) EXCEPT !.error = outcome]
    /\ stats' = count_failed(stats)
    /\ pc' = "append"
    /\ UNCHANGED <<cfgVars, visited_urls, queued_urls, results,
                   cur, start_domain, allowed_domains, seed_analyzed, futures,
                   workers, unfinished, raised, handed, rlVars, utilVars,
                   queued_scores>>

\* self.results.append(result), then the discovered links are queued
WC_Append ==
    /\ engine = "web" /\ pc = "append"
    /\ results' = Append(results, Recorded(result))
    /\ queued_urls' = IF is_successful(result) /\ cur.depth < max_depth
                         THEN enqueue_links(result.links, cur.depth)
                         ELSE queued_urls
    /\ cur' = NoCur
    /\ result' = NoResult
    /\ pc' = "loop"
    /\ UNCHANGED <<cfgVars, visited_urls, stats, start_domain,
                   allowed_domains, seed_analyzed, futures, workers, unfinished,
                   raised, last_outcome, fetch_calls, handed, rlVars, utilVars,
                   queued_scores>>

\* the loop condition is false: return self.results
WC_Return ==
    /\ engine = "web" /\ pc = "loop"
    /\ ~web_loop_condition
    /\ pc' = "done"
    /\ UNCHANGED <<cfgVars, visited_urls, queued_urls, results,
                   stats, cur, result, start_domain, allowed_domains,
                   seed_analyzed, futures, workers, unfinished, raised,
                   last_outcome, fetch_calls, handed, rlVars, utilVars,
                   queued_scores>>

\* the crawl() calls that follow the first on one instance
MaxRuns == 1

\* WebCrawler.crawl called again on the instance, after a crawl has
\* returned: visited_urls, queued_urls and results cleared, stats replaced;
\* the other attributes of the instance are as the earlier crawl left them
WC_CrawlAgain(start_url, reachable) ==
    /\ engine = "web" /\ pc = "done"
    /\ runs < MaxRuns
    /\ runs' = runs + 1
    /\ visited_urls' = {}
    /\ results' = <<>>
    /\ stats' = CrawlStats
    /\ IF ~Truthy(validate_url(WebCrawler_normalize_url(start_url), reachable))
          THEN /\ raised' = "CrawlError" /\ pc' = "raised"
               /\ queued_urls' = <<>>
          ELSE /\ queued_urls' = << <<WebCrawler_normalize_url(start_url), 0>> >>
               /\ pc' = "loop" /\ raised' = raised
    /\ UNCHANGED <<cfgVars, cur, result, start_domain,
                   allowed_domains, seed_analyzed, futures, workers, unfinished,
                   last_outcome, fetch_calls, handed, rlVars, clock, cacheVars,
                   fetchVars, backoffVars, adaptiveVars, scoreVars, webVars,
                   sessVars, rqVars, queued_scores>>

WebCrawlerNext ==
    \/ \E s \in Seeds \cup {MalformedSeed}, reachable \in BOOLEAN :
          WC_Crawl(s, reachable)
    \/ WC_Skip
    \/ WC_Visit
    \/ \E hrefs \in LinkLists : WC_CrawlPageOk(hrefs)
    \/ \E o \in FailOutcomes : WC_CrawlPageFail(o)
    \/ WC_Append
    \/ WC_Return

---------------------------------------------------------------------------
(* FastCrawler (src/core/fast_crawler.py)                                  *)

\* `for link in result.links[:10]`
LinksPerPageQueued == 10
\* `return links[:50]`
LinksPerPageExtracted == 50
\* `len(self.queue) < 1000`
QueueLimit == 1000

\* FastCrawler._should_crawl_url on the modelled web (http/https URLs, no
\* blocked domain, skipped extension, asset path or tracking word): what
\* remains is the '#' pattern.  The host is not compared with base_domain.
should_crawl_url(u, base_domain) == ~u.frag

\* FastCrawler._extract_links_fast: each href normalized, kept when not
\* visited and to be crawled; at most 50
extract_links_fast(hrefs, base_url) ==
    Take(SelectSeq(MapSeq(FastCrawler_normalize_url, hrefs),
                   LAMBDA u : /\ u \notin visited_urls
                              /\ should_crawl_url(u, netloc(base_url))),
         LinksPerPageExtracted)

\* a task submitted to the executor that has not finished
Future(url, depth) ==
    [url |-> url, depth |-> depth, done |-> FALSE, result |-> NoResult]

\* crawl_concurrent up to the thread pool: state reset, start URL queued
FC_Crawl(start_url) ==
    /\ engine = "fast" /\ pc = "idle"
    /\ visited_urls' = {}
    /\ results' = <<>>
    /\ queued_urls' = << <<FastCrawler_normalize_url(start_url), 0>> >>
    /\ stats' = CrawlStats
    /\ futures' = <<>>
    /\ pc' = "loop"
    /\ UNCHANGED <<cfgVars, cur, result, start_domain,
                   allowed_domains, seed_analyzed, workers, unfinished, raised,
                   last_outcome, fetch_calls, handed, rlVars, utilVars,
                   queued_scores>>

\* `while (self.queue or futures) and len(self.results) < self.max_pages`
fast_loop_condition ==
    (queued_urls # <<>> \/ futures # <<>>) /\ Len(results) < max_pages

\* the outer loop condition holds: on to the submit loop
FC_Loop ==
    /\ engine = "fast" /\ pc = "loop"
    /\ fast_loop_condition
    /\ pc' = "submit"
    /\ UNCHANGED <<cfgVars, visited_urls, queued_urls, results,
                   stats, cur, result, start_domain, allowed_domains,
                   seed_analyzed, futures, workers, unfinished, raised,
                   last_outcome, fetch_calls, handed, rlVars, utilVars,
                   queued_scores>>

\* submit loop: popleft, `if url in self.visited_urls: continue`
FC_SubmitSkip ==
    /\ engine = "fast" /\ pc = "submit"
    /\ queued_urls # <<>> /\ Len(futures) < max_workers
    /\ Head(queued_urls)[1] \in visited_urls
    /\ queued_urls' = popleft(queued_urls)
    /\ UNCHANGED <<cfgVars, pc, visited_urls, results, stats, cur,
                   result, start_domain, allowed_domains, seed_analyzed, futures,
                   workers, unfinished, raised, last_outcome, fetch_calls,
                   handed, rlVars, utilVars,
                   queued_scores>>

\* submit loop: popleft, mark visited and count under the lock, submit
FC_Submit ==
    /\ engine = "fast" /\ pc = "submit"
    /\ queued_urls # <<>> /\ Len(futures) < max_workers
    /\ Head(queued_urls)[1] \notin visited_urls
    /\ queued_urls' = popleft(queued_urls)
    /\ visited_urls' = visited_urls \cup {Head(queued_urls)[1]}
    /\ stats' = [stats EXCEPT !.total_pages = @ + 1]
    /\ futures' = Append(futures,
                         Future(Head(queued_urls)[1], Head(queued_urls)[2]))
    /\ handed' = handed \cup {Head(queued_urls)[1]}
    /\ UNCHANGED <<cfgVars, pc, results, cur, result,
                   start_domain, allowed_domains, seed_analyzed, workers,
                   unfinished, raised, last_outcome, fetch_calls, rlVars, utilVars,
                   queued_scores>>

\* the submit loop ends: queue empty or max_workers futures outstanding
FC_SubmitEnd ==
    /\ engine = "fast" /\ pc = "submit"
    /\ ~(queued_urls # <<>> /\ Len(futures) < max_workers)
    /\ pc' = "poll"
    /\ UNCHANGED <<cfgVars, visited_urls, queued_urls, results,
                   stats, cur, result, start_domain, allowed_domains,
                   seed_analyzed, futures, workers, unfinished, raised,
                   last_outcome, fetch_calls, handed, rlVars, utilVars,
                   queued_scores>>

\* a pool thread runs _process_page for future i, try branch
FC_ProcessPageOk(i, hrefs) ==
    /\ engine = "fast" /\ pc \in {"loop", "submit", "poll", "shutdown"}
    /\ i \in 1..Len(futures) /\ ~futures[i].done
    /\ hrefs \in anchors_read(futures[i].depth)
    /\ CountFetch(futures[i].url)
    /\ futures' = [futures EXCEPT
          ![i].done = TRUE,
          ![i].result =
              [CrawlResult(futures[i].url, futures[i].depth) EXCEPT
                 !.links = IF futures[i].depth < max_depth
                              THEN extract_links_fast(hrefs, futures[i].url)
                              ELSE <<>>]]
    /\ stats' = count_successful(stats)
    /\ UNCHANGED <<cfgVars, pc, visited_urls, queued_urls,
                   results, cur, result, start_domain, allowed_domains,
                   seed_analyzed, workers, unfinished, raised, last_outcome,
                   handed, rlVars, utilVars,
                   queued_scores>>

\* a pool thread runs _process_page for future i, except branch
FC_ProcessPageFail(i, outcome) ==
    /\ engine = "fast" /\ pc \in {"loop", "submit", "poll", "shutdown"}
    /\ i \in 1..Len(futures) /\ ~futures[i].done
    /\ CountFetch(futures[i].url)
    /\ futures' = [futures EXCEPT
          ![i].done = TRUE,
          ![i].result = [CrawlResult(futures[i].url, futures[i].depth) EXCEPT
                           !.error = outcome]]
    /\ stats' = count_failed(stats)
    /\ UNCHANGED <<cfgVars, pc, visited_urls, queued_urls,
                   results, cur, result, start_domain, allowed_domains,
                   seed_analyzed, workers, unfinished, raised, last_outcome,
                   handed, rlVars, utilVars,
                   queued_scores>>

\* `for link in result.links[:10]: if link not in visited and
\* len(queue) < 1000: queue.append((link, depth + 1))`
RECURSIVE queue_links(_, _, _)
queue_links(q, links, depth) ==
    IF links = <<>> THEN q
    ELSE queue_links(IF Head(links) \notin visited_urls /\ Len(q) < QueueLimit
                        THEN Append(q, <<Head(links), depth + 1>>)
                        ELSE q,
                     Tail(links), depth)

\* the queue after one pass of `for future_data in futures` over fs
RECURSIVE queue_after_pass(_, _)
queue_after_pass(q, fs) ==
    IF fs = <<>> THEN q
    ELSE queue_after_pass(
            IF /\ Head(fs).done
               /\ is_successful(Head(fs).result)
               /\ Head(fs).depth < max_depth
               THEN queue_links(q, Take(Head(fs).result.links,
                                        LinksPerPageQueued),
                                Head(fs).depth)
               ELSE q,
            Tail(fs))

\* the results appended by one pass over `futures`: every future found done
results_of_pass(fs) ==
    MapSeq(LAMBDA f : Recorded(f.result), SelectSeq(fs, LAMBDA f : f.done))

\* one polling pass: every future that is done has its result appended and
\* its links queued, then the done futures are removed
FC_Poll ==
    /\ engine = "fast" /\ pc = "poll"
    /\ results' = results \o results_of_pass(futures)
    /\ queued_urls' = queue_after_pass(queued_urls, futures)
    /\ futures' = SelectSeq(futures, LAMBDA f : ~f.done)
    /\ pc' = "loop"
    /\ UNCHANGED <<cfgVars, visited_urls, stats, cur, result,
                   start_domain, allowed_domains, seed_analyzed, workers,
                   unfinished, raised, last_outcome, fetch_calls, handed,
                   rlVars, utilVars,
                   queued_scores>>

\* the outer loop condition is false: the `with` block is left, which waits
\* for the pool's threads (ThreadPoolExecutor.__exit__ -> shutdown(wait=True))
FC_LoopExit ==
    /\ engine = "fast" /\ pc = "loop"
    /\ ~fast_loop_condition
    /\ pc' = "shutdown"
    /\ UNCHANGED <<cfgVars, visited_urls, queued_urls, results,
                   stats, cur, result, start_domain, allowed_domains,
                   seed_analyzed, futures, workers, unfinished, raised,
                   last_outcome, fetch_calls, handed, rlVars, utilVars,
                   queued_scores>>

\* every submitted task has finished: return self.results
FC_Return ==
    /\ engine = "fast" /\ pc = "shutdown"
    /\ \A i \in 1..Len(futures) : futures[i].done
    /\ pc' = "done"
    /\ UNCHANGED <<cfgVars, visited_urls, queued_urls, results,
                   stats, cur, result, start_domain, allowed_domains,
                   seed_analyzed, futures, workers, unfinished, raised,
                   last_outcome, fetch_calls, handed, rlVars, utilVars,
                   queued_scores>>

FastCrawlerNext ==
    \/ \E s \in Seeds : FC_Crawl(s)
    \/ FC_Loop
    \/ FC_SubmitSkip
    \/ FC_Submit
    \/ FC_SubmitEnd
    \/ \E i \in 1..MaxWorkersBound, hrefs \in LinkLists : FC_ProcessPageOk(i, hrefs)
    \/ \E i \in 1..MaxWorkersBound, o \in FailOutcomes : FC_ProcessPageFail(i, o)
    \/ FC_Poll
    \/ FC_LoopExit
    \/ FC_Return

---------------------------------------------------------------------------
(* AsyncFastCrawler (src/core/fast_crawler.py)                             *)
(* One event loop runs crawl_async and the _worker tasks: a task runs      *)
(* from one await that suspends it to the next.  queue.put on the          *)
(* unbounded queue does not suspend; the fetch does.                       *)

\* `return links[:30]`
LinksPerPageAsync == 30
\* `for _ in range(min(self.max_concurrent, 10))`
WorkerCap == 10

\* what makes _process_page_async fail: _fetch_page returned None (a status
\* other than 200, or an exception it swallowed)
AsyncFailOutcomes == {"failed to fetch"}

\* the number of _worker tasks crawl_async creates
NumWorkers == IF max_workers < WorkerCap THEN max_workers ELSE WorkerCap

\* the _worker tasks waiting in queue.get(): those not suspended in
\* _process_page_async.  `workers` holds the (url, depth) of each suspended
\* one and, as history, the time at which its fetch began.
idle_workers == NumWorkers - Cardinality(workers)

\* variant for sensitivity analysis: the URL is checked but not marked
mark_visited_lost(url) == visited_urls

\* self.visited_urls.add(url) of _worker
mark_visited(url) == visited_urls \cup {url}

\* extract_links of _process_page_async: hrefs that do not start with '#',
\* joined to the page's URL and not normalized; at most 30
extract_links_async(hrefs) == Take(hrefs, LinksPerPageAsync)

\* `for link in result.links: if link not in self.visited_urls:
\* await self.queue.put((link, depth + 1))`
put_links(links, depth) ==
    MapSeq(LAMBDA l : <<l, depth + 1>>,
           SelectSeq(links, LAMBDA l : l \notin visited_urls))

\* a plausible slip: a path of _worker that leaves out task_done
task_done_forgotten(n) == n

\* the queue's count of unfinished tasks after self.queue.task_done()
task_done(n) == n - 1

\* crawl_async up to queue.join(): visited, results and stats reset (the
\* queue is not), the start URL put as given, the workers created
AC_Crawl(start_url) ==
    /\ engine = "async" /\ pc = "idle"
    /\ visited_urls' = {}
    /\ results' = <<>>
    /\ stats' = CrawlStats
    /\ queued_urls' = Append(queued_urls, <<start_url, 0>>)
    /\ unfinished' = unfinished + 1
    /\ workers' = {}
    /\ pc' = "join"
    /\ UNCHANGED <<cfgVars, cur, result, start_domain,
                   allowed_domains, seed_analyzed, futures, raised,
                   last_outcome, fetch_calls, handed, rlVars, utilVars,
                   queued_scores>>

\* _worker: queue.get() returns an item that is visited already, or the
\* page budget is used up: task_done, continue
AW_Skip ==
    /\ engine = "async" /\ pc = "join"
    /\ idle_workers > 0
    /\ queued_urls # <<>>
    /\ \/ Head(queued_urls)[1] \in visited_urls
       \/ Len(results) >= max_pages
    /\ queued_urls' = Tail(queued_urls)
    /\ unfinished' = task_done(unfinished)
    /\ UNCHANGED <<cfgVars, pc, visited_urls, results, stats, cur,
                   result, start_domain, allowed_domains, seed_analyzed, futures,
                   workers, raised, last_outcome, fetch_calls, handed, rlVars, utilVars,
                   queued_scores>>

\* _worker: queue.get() returns an item, it is marked visited and counted,
\* and the task suspends in _process_page_async, where _fetch_page has
\* taken the semaphore and sent the request
AW_Take ==
    /\ engine = "async" /\ pc = "join"
    /\ idle_workers > 0
    /\ queued_urls # <<>>
    /\ ~(\/ Head(queued_urls)[1] \in visited_urls
         \/ Len(results) >= max_pages)
    /\ queued_urls' = Tail(queued_urls)
    /\ visited_urls' = mark_visited(Head(queued_urls)[1])
    /\ stats' = [stats EXCEPT !.total_pages = @ + 1]
    /\ workers' = workers \cup {[url |-> Head(queued_urls)[1],
                                  depth |-> Head(queued_urls)[2],
                                  started |-> now]}
    /\ handed' = handed \cup {Head(queued_urls)[1]}
    /\ UNCHANGED <<cfgVars, pc, results, cur, result,
                   start_domain, allowed_domains, seed_analyzed, futures,
                   unfinished, raised, last_outcome, fetch_calls, rlVars, utilVars,
                   queued_scores>>

\* _worker resumes with the page: result appended, links put, task_done
AW_ProcessPageOk(w, hrefs) ==
    /\ engine = "async" /\ pc = "join"
    /\ w \in workers
    /\ hrefs \in anchors_read(w.depth)
    /\ CountFetch(w.url)
    /\ stats' = count_successful(stats)
    /\ results' = Append(results,
                         Recorded(CrawlResult(w.url, w.depth)))
    /\ LET links == IF w.depth < max_depth
                       THEN extract_links_async(hrefs) ELSE <<>>
           put == IF w.depth < max_depth
                     THEN put_links(links, w.depth) ELSE <<>>
       IN  /\ queued_urls' = queued_urls \o put
           /\ unfinished' = task_done(unfinished + Len(put))
    /\ workers' = workers \ {w}
    /\ UNCHANGED <<cfgVars, pc, visited_urls, cur, result,
                   start_domain, allowed_domains, seed_analyzed, futures,
                   raised, last_outcome, handed, rlVars, utilVars,
                   queued_scores>>

\* _worker resumes with a failed fetch (_fetch_page returned None):
\* the result carries the error, task_done
AW_ProcessPageFail(w, outcome) ==
    /\ engine = "async" /\ pc = "join"
    /\ w \in workers
    /\ CountFetch(w.url)
    /\ stats' = count_failed(stats)
    /\ results' = Append(results,
                         Recorded([CrawlResult(w.url, w.depth)
                                     EXCEPT !.error = outcome]))
    /\ unfinished' = task_done(unfinished)
    /\ workers' = workers \ {w}
    /\ UNCHANGED <<cfgVars, pc, visited_urls, queued_urls, cur,
                   result, start_domain, allowed_domains, seed_analyzed, futures,
                   raised, last_outcome, handed, rlVars, utilVars,
                   queued_scores>>

\* queue.join() returns (every item put has had its task_done): the workers,
\* all waiting in queue.get(), are cancelled and self.results is returned
AC_Return ==
    /\ engine = "async" /\ pc = "join"
    /\ unfinished = 0
    /\ pc' = "done"
    /\ UNCHANGED <<cfgVars, visited_urls, queued_urls, results,
                   stats, cur, result, start_domain, allowed_domains,
                   seed_analyzed, futures, workers, unfinished, raised,
                   last_outcome,
                   fetch_calls, handed, rlVars, utilVars,
                   queued_scores>>

\* the clock of a crawl_async run stops here
MaxAsyncTime == 3

\* time passes while a task is suspended in its fetch
AW_Tick ==
    /\ engine = "async" /\ pc = "join"
    /\ workers # {}
    /\ now < MaxAsyncTime
    /\ now' = now + 1
    /\ UNCHANGED <<crawlVars, default_delay, domain_delays, last_request_time,
                   lock, callers, returns, utilVars>>

\* _worker resumes with the page and progress_callback raises after
\* self.results.append(result): `except Exception`, task_done, and the
\* worker goes on with the next item; the page's links are not put
AW_WorkerError(w) ==
    /\ engine = "async" /\ pc = "join"
    /\ w \in workers
    /\ CountFetch(w.url)
    /\ last_outcome' = "worker error"
    /\ stats' = count_successful(stats)
    /\ results' = Append(results, Recorded(CrawlResult(w.url, w.depth)))
    /\ unfinished' = task_done(unfinished)
    /\ workers' = workers \ {w}
    /\ UNCHANGED <<cfgVars, pc, visited_urls, queued_urls, cur,
                   result, start_domain, allowed_domains, seed_analyzed, futures,
                   raised, handed, rlVars, utilVars,
                   queued_scores>>

AsyncFastCrawlerNext ==
    \/ \E s \in Seeds : AC_Crawl(s)
    \/ AW_Skip
    \/ AW_Take
    \/ \E w \in workers, hrefs \in LinkLists : AW_ProcessPageOk(w, hrefs)
    \/ \E w \in workers, o \in AsyncFailOutcomes : AW_ProcessPageFail(w, o)
    \/ AC_Return
    \/ AW_Tick

---------------------------------------------------------------------------
(* SmartWebCrawler (src/core/smart_crawler.py)                             *)
(* Scores are in hundredths.                                               *)

\* `min_relevance_score: float = 0.4`
DefaultMinRelevance == 40
\* the thresholds a caller may construct the crawler with: one that scores of
\* an analyzer without seed (at most 1/3) can pass, and the default
MinRelevanceScores == {30, DefaultMinRelevance}
\* `if score >= 0.7`
HighRelevance == 70
\* `if queued_count >= 10`
LinksPerPageSmart == 10

\* SmartWebCrawler._should_follow_url on the modelled web (paths of at most 6
\* segments, no query): the rules of the parent class
smart_should_follow_url(u) == should_follow_url(u, start_domain)

\* RelevanceAnalyzer.calculate_relevance_score of an anchor, given whether
\* analyze_seed_content has run
relevance_score(a, analyzed) == IF analyzed THEN a.after ELSE a.before

\* links_with_scores.sort(key=lambda x: x[1], reverse=True): highest score
\* first, equal scores in their order of appearance
RECURSIVE sort_by_score(_)
sort_by_score(ls) ==
    IF ls = <<>> THEN <<>>
    ELSE LET top == CHOOSE s \in { ls[i][2] : i \in 1..Len(ls) } :
                        \A i \in 1..Len(ls) : ls[i][2] <= s
         IN  SelectSeq(ls, LAMBDA l : l[2] = top)
               \o sort_by_score(SelectSeq(ls, LAMBDA l : l[2] # top))

\* a plausible slip: every score is taken as relevant enough
relevant_enough_always(score) == TRUE

\* `relevance_score >= self.min_relevance_score` of _extract_relevant_links
\* and `score >= self.min_relevance_score` of _queue_relevant_links
relevant_enough(score) == score >= min_relevance_score

\* SmartWebCrawler._extract_relevant_links: (url, score) of every anchor whose
\* normalized URL is to be followed and whose score reaches the minimum
extract_relevant_links(anchors, analyzed) ==
    sort_by_score(
        MapSeq(LAMBDA a : <<WebCrawler_normalize_url(a.href),
                            relevance_score(a, analyzed)>>,
               SelectSeq(anchors,
                   LAMBDA a :
                      /\ smart_should_follow_url(WebCrawler_normalize_url(a.href))
                      /\ relevant_enough(relevance_score(a, analyzed)))))

\* the (link, score) pairs that the loop of _queue_relevant_links queues:
\* those not visited and relevant enough, until 10 are queued
RECURSIVE links_to_queue(_, _)
links_to_queue(lws, queued_count) ==
    IF lws = <<>> \/ queued_count >= LinksPerPageSmart THEN <<>>
    ELSE IF /\ Head(lws)[1] \notin visited_urls
            /\ relevant_enough(Head(lws)[2])
         THEN <<Head(lws)>> \o links_to_queue(Tail(lws), queued_count + 1)
         ELSE links_to_queue(Tail(lws), queued_count)

\* the loop of SmartWebCrawler._queue_relevant_links over links_with_scores:
\* appendleft for a score of 0.7 or more, append otherwise
RECURSIVE queue_relevant_links(_, _, _)
queue_relevant_links(q, lws, depth) ==
    IF lws = <<>> THEN q
    ELSE queue_relevant_links(
            IF Head(lws)[2] >= HighRelevance
               THEN << <<Head(lws)[1], depth + 1>> >> \o q
               ELSE Append(q, <<Head(lws)[1], depth + 1>>),
            Tail(lws), depth)

\* SmartWebCrawler.crawl up to the main loop: state reset, start URL
\* validated (and queued as validate_url returns it, not normalized)
SM_Crawl(start_url, reachable) ==
    /\ engine = "smart" /\ pc = "idle"
    /\ visited_urls' = {}
    /\ results' = <<>>
    /\ stats' = CrawlStats
    /\ seed_analyzed' = FALSE
    /\ queued_scores' = <<>>
    /\ IF ~validate_url(start_url, reachable)[1]
          THEN /\ raised' = "ValueError" /\ pc' = "raised"
               /\ queued_urls' = <<>>
               /\ allowed_domains' = allowed_domains
          ELSE /\ allowed_domains' =
                     IF allowed_domains = NoDomains /\ ~follow_external_links
                        THEN {netloc(validate_url(start_url, reachable)[2])}
                        ELSE allowed_domains
               /\ queued_urls' = << <<validate_url(start_url, reachable)[2], 0>> >>
               /\ pc' = "loop" /\ raised' = raised
    /\ UNCHANGED <<cfgVars, cur, result, start_domain, futures, workers,
                   unfinished, last_outcome, fetch_calls, handed, rlVars, utilVars>>

\* variant for sensitivity analysis: no depth is too deep
too_deep_never(depth) == FALSE

\* `depth > self.max_depth` of the loop's skip test
too_deep(depth) == depth > max_depth

\* `while self.queued_urls and self.stats.total_pages < self.max_pages`
smart_loop_condition ==
    queued_urls # <<>> /\ stats.total_pages < max_pages

\* loop iteration that ends at `continue`: the URL is visited already or
\* lies deeper than max_depth
SM_Skip ==
    /\ engine = "smart" /\ pc = "loop"
    /\ smart_loop_condition
    /\ \/ Head(queued_urls)[1] \in visited_urls
       \/ too_deep(Head(queued_urls)[2])
    /\ queued_urls' = Tail(queued_urls)
    /\ UNCHANGED <<cfgVars, pc, visited_urls, results, stats, cur, result,
                   start_domain, allowed_domains, seed_analyzed, futures,
                   workers, unfinished, raised, last_outcome, fetch_calls,
                   handed, rlVars, utilVars,
                   queued_scores>>

\* loop iteration up to the fetch: popleft, mark visited, count the page
SM_Visit ==
    /\ engine = "smart" /\ pc = "loop"
    /\ smart_loop_condition
    /\ Head(queued_urls)[1] \notin visited_urls
    /\ ~too_deep(Head(queued_urls)[2])
    /\ queued_urls' = Tail(queued_urls)
    /\ visited_urls' = visited_urls \cup {Head(queued_urls)[1]}
    /\ stats' = [stats EXCEPT !.total_pages = @ + 1]
    /\ cur' = [url |-> Head(queued_urls)[1], depth |-> Head(queued_urls)[2]]
    /\ pc' = "fetch"
    /\ UNCHANGED <<cfgVars, results, result, start_domain, allowed_domains,
                   seed_analyzed, futures, workers, unfinished, raised,
                   last_outcome, fetch_calls, handed, rlVars, utilVars,
                   queued_scores>>

\* rest of the iteration when _process_page succeeds: links extracted and
\* scored, result appended and counted, the seed analysed on the first page
\* with content, the relevant links scored again and queued
SM_ProcessPageOk(anchors, has_content) ==
    /\ engine = "smart" /\ pc = "fetch"
    /\ anchors # <<>> => has_content
    /\ CountFetch(cur.url)
    /\ results' = Append(results, Recorded(CrawlResult(cur.url, cur.depth)))
    /\ stats' = count_successful(
                    [stats EXCEPT
                       !.total_links_found =
                           @ + Len(extract_relevant_links(anchors, seed_analyzed))])
    /\ seed_analyzed' = (seed_analyzed \/ has_content)
    /\ queued_scores' =
          IF /\ extract_relevant_links(anchors, seed_analyzed) # <<>>
             /\ seed_analyzed'
             THEN links_to_queue(
                     extract_relevant_links(anchors, seed_analyzed'), 0)
             ELSE <<>>
    /\ queued_urls' = queue_relevant_links(queued_urls, queued_scores', cur.depth)
    /\ cur' = NoCur
    /\ pc' = "loop"
    /\ UNCHANGED <<cfgVars, visited_urls, result, start_domain,
                   allowed_domains, futures, workers, unfinished, raised,
                   last_outcome, handed, rlVars, utilVars>>

\* rest of the iteration when _process_page caught an exception
SM_ProcessPageFail(outcome) ==
    /\ engine = "smart" /\ pc = "fetch"
    /\ CountFetch(cur.url)
    /\ results' = Append(results,
                         Recorded([CrawlResult(cur.url, cur.depth)
                                     EXCEPT !.error = outcome]))
    /\ stats' = count_failed(stats)
    /\ queued_scores' = <<>>
    /\ cur' = NoCur
    /\ pc' = "loop"
    /\ UNCHANGED <<cfgVars, visited_urls, queued_urls, result, start_domain,
                   allowed_domains, seed_analyzed, futures, workers,
                   unfinished, raised, last_outcome, handed, rlVars, utilVars>>

\* the loop condition is false: the results dictionary is returned
SM_Return ==
    /\ engine = "smart" /\ pc = "loop"
    /\ ~smart_loop_condition
    /\ pc' = "done"
    /\ UNCHANGED <<cfgVars, visited_urls, queued_urls, results, stats, cur,
                   result, start_domain, allowed_domains, seed_analyzed,
                   futures, workers, unfinished, raised, last_outcome,
                   fetch_calls, handed, rlVars, utilVars,
                   queued_scores>>

SmartWebCrawlerNext ==
    \/ \E s \in Seeds, reachable \in BOOLEAN : SM_Crawl(s, reachable)
    \/ SM_Skip
    \/ SM_Visit
    \/ \E anchors \in AnchorLists, c \in BOOLEAN : SM_ProcessPageOk(anchors, c)
    \/ \E o \in FailOutcomes : SM_ProcessPageFail(o)
    \/ SM_Return

---------------------------------------------------------------------------
(* RateLimiter (src/utils/rate_limiter.py)                                 *)
(* Threads call wait_if_needed concurrently.  The clock advances in ticks: *)
(* while a thread waits for the lock, while it sleeps (time.sleep may      *)
(* oversleep) and between calls.  The statements a thread executes between *)
(* reading the clock and returning take no time.                           *)

\* the largest delay a limiter is constructed with, in ticks
MaxDelay == 2
\* the number of threads that call wait_if_needed
NumCallers == 2
\* the clock stops here
MaxTime == 6

Threads == 1..NumCallers

\* the arguments `domain_delays` the limiter may be constructed with: none,
\* or a delay of its own for the other host
DomainDelays == UNION { [D -> 1..MaxDelay] : D \in SUBSET {OtherHost} }

\* a thread that is not inside wait_if_needed
IdleCaller == [pc |-> "idle", domain |-> NoDomain, current_time |-> -1,
               wait_time |-> -1]

\* RateLimiter.get_delay_for_domain:
\* self.domain_delays.get(domain, self.default_delay)
get_delay_for_domain(domain) ==
    IF domain \in DOMAIN domain_delays
       THEN domain_delays[domain] ELSE default_delay

\* variant for sensitivity analysis: a lock that excludes nobody
lock_acquired_always(t) == TRUE

\* threading.Lock.acquire succeeds for thread t: no thread holds the lock
lock_acquired(t) == lock = {}

\* history: one more return of wait_if_needed for the domain, at the clock's
\* present value
record_return(domain) ==
    returns' = [returns EXCEPT ![domain] =
                   [time |-> now, flip |-> ~returns[domain].flip]]

\* thread t calls wait_if_needed(domain) and arrives at `with self.lock`
RL_Call(t, domain) ==
    /\ engine = "none"
    /\ callers[t].pc = "idle"
    /\ callers' = [callers EXCEPT ![t] =
                      [IdleCaller EXCEPT !.pc = "acquire", !.domain = domain]]
    /\ UNCHANGED <<crawlVars, utilVars, default_delay, domain_delays, now,
                   last_request_time, lock, returns>>

\* thread t enters the `with` block, reads the clock and the domain's last
\* request time, and finds that it has to wait: it calls time.sleep(wait_time)
RL_EnterWait(t) ==
    /\ engine = "none"
    /\ callers[t].pc = "acquire"
    /\ lock_acquired(t)
    /\ now - last_request_time[callers[t].domain]
          < get_delay_for_domain(callers[t].domain)
    /\ lock' = lock \cup {t}
    /\ callers' = [callers EXCEPT
          ![t].pc = "sleep",
          ![t].current_time = now,
          ![t].wait_time =
              get_delay_for_domain(callers[t].domain)
                - (now - last_request_time[callers[t].domain])]
    /\ UNCHANGED <<crawlVars, utilVars, default_delay, domain_delays, now,
                   last_request_time, returns>>

\* thread t enters the `with` block, reads the clock and the domain's last
\* request time, and finds that the delay has passed
RL_EnterNoWait(t) ==
    /\ engine = "none"
    /\ callers[t].pc = "acquire"
    /\ lock_acquired(t)
    /\ ~(now - last_request_time[callers[t].domain]
           < get_delay_for_domain(callers[t].domain))
    /\ lock' = lock \cup {t}
    /\ callers' = [callers EXCEPT
          ![t].pc = "record", ![t].current_time = now, ![t].wait_time = 0]
    /\ UNCHANGED <<crawlVars, utilVars, default_delay, domain_delays, now,
                   last_request_time, returns>>

\* else branch: self.last_request_time[domain] = current_time; return 0
\* (the lock is released on the way out)
RL_ReturnNoWait(t) ==
    /\ engine = "none"
    /\ callers[t].pc = "record"
    /\ last_request_time' =
          [last_request_time EXCEPT ![callers[t].domain] = callers[t].current_time]
    /\ record_return(callers[t].domain)
    /\ lock' = lock \ {t}
    /\ callers' = [callers EXCEPT ![t] = IdleCaller]
    /\ UNCHANGED <<crawlVars, utilVars, default_delay, domain_delays, now>>

\* time.sleep(wait_time) has returned, not before wait_time has passed:
\* self.last_request_time[domain] = time.time(); return wait_time
RL_ReturnAfterSleep(t) ==
    /\ engine = "none"
    /\ callers[t].pc = "sleep"
    /\ now >= callers[t].current_time + callers[t].wait_time
    /\ last_request_time' =
          [last_request_time EXCEPT ![callers[t].domain] = now]
    /\ record_return(callers[t].domain)
    /\ lock' = lock \ {t}
    /\ callers' = [callers EXCEPT ![t] = IdleCaller]
    /\ UNCHANGED <<crawlVars, utilVars, default_delay, domain_delays, now>>

\* the clock advances by one tick
RL_Tick ==
    /\ engine = "none"
    /\ now < MaxTime
    /\ \A t \in Threads : callers[t].pc # "record"
    /\ now' = now + 1
    /\ UNCHANGED <<crawlVars, utilVars, default_delay, domain_delays,
                   last_request_time, lock, callers, returns>>

RateLimiterNext ==
    \/ \E t \in Threads, d \in Hosts : RL_Call(t, d)
    \/ \E t \in Threads : RL_EnterWait(t)
    \/ \E t \in Threads : RL_EnterNoWait(t)
    \/ \E t \in Threads : RL_ReturnNoWait(t)
    \/ \E t \in Threads : RL_ReturnAfterSleep(t)
    \/ RL_Tick


---------------------------------------------------------------------------
(* Cache (src/utils/cache.py)                                              *)
(* One Cache object and its directory.  The file system works: writing,    *)
(* reading and unlinking a .pkl file does not fail, and the data is        *)
(* picklable.  The clock advances in ticks between calls; the statements   *)
(* of one call read one value of it.                                       *)

\* the clock stops here
MaxCacheTime == 3
\* the largest ttl a caller supplies
MaxTtl == 1
\* the largest max_size_bytes a cache is constructed with
MaxCacheSize == 10

\* the URLs cached
CacheUrls == {Plain(SeedHost, SeedPath)}

\* the argument `params`: None or a dict with an item
NoParams == "None"
PageParams == "{page: 2}"
Params == {NoParams, PageParams}

\* the argument `ttl`: None or a number of seconds
NoTtl == -1
Ttls == {NoTtl, 0, MaxTtl}

\* the data cached, and what get returns on a miss
Data == {"a", "bb"}
Miss == "None"

\* cache_file.stat().st_size of the pickled data
pickled_size(data) == IF data = "a" THEN 3 ELSE 4

\* Cache._generate_key: the digest of the JSON text of {'url': url} updated
\* with params; different texts have different digests
generate_key(url, params) == [url |-> url, params |-> params]

\* `key in self.metadata['entries']`
has_entry(entries, key) ==
    \E i \in 1..Len(entries) : entries[i].key = key

\* self.metadata['entries'][key]
entry_of(entries, key) ==
    entries[CHOOSE i \in 1..Len(entries) : entries[i].key = key]

\* self.metadata['entries'].pop(key)
pop_entry(entries, key) == SelectSeq(entries, LAMBDA e : e.key # key)

\* self.metadata['entries'][key] = {...}: an existing key keeps its place
put_entry(entries, e) ==
    IF has_entry(entries, e.key)
       THEN [i \in 1..Len(entries) |->
                IF entries[i].key = e.key THEN e ELSE entries[i]]
       ELSE Append(entries, e)

\* the .pkl files that remain when only the keys of `entries` keep theirs
files_of(files, entries) ==
    [k \in { key \in DOMAIN files : has_entry(entries, key) } |-> files[k]]

\* a plausible slip: the expiry test left out
is_expired_never(entry) == FALSE

\* a plausible slip: the comparison inverted
is_expired_inverted(entry) == clock < entry.expires_at

\* `time.time() > entry['expires_at']`
is_expired(entry) == clock > entry.expires_at

\* `ttl = ttl or self.default_ttl`
effective_ttl(ttl) == IF ttl = NoTtl \/ ttl = 0 THEN default_ttl ELSE ttl

\* sorted(entries.items(), key=lambda x: x[1]['created_at']): oldest first,
\* equal times in the order of the dict
RECURSIVE sorted_entries(_)
sorted_entries(entries) ==
    IF entries = <<>> THEN <<>>
    ELSE LET first == CHOOSE c \in { entries[i].created_at : i \in 1..Len(entries) } :
                          \A i \in 1..Len(entries) : c <= entries[i].created_at
         IN  SelectSeq(entries, LAMBDA e : e.created_at = first)
               \o sorted_entries(SelectSeq(entries, LAMBDA e : e.created_at # first))

\* `int(self.max_size_bytes * 0.8)`
evict_target == (max_size_bytes * 8) \div 10

\* the loop of Cache._evict_oldest over the sorted entries
RECURSIVE evict_loop(_, _, _)
evict_loop(sorted, md, target_size) ==
    IF sorted = <<>> \/ md.total_size <= target_size THEN md
    ELSE evict_loop(Tail(sorted),
                    [entries |-> pop_entry(md.entries, Head(sorted).key),
                     total_size |-> md.total_size - Head(sorted).size],
                    target_size)

\* Cache._evict_oldest() as Cache.set calls it: the metadata on return
evict_oldest(md) == evict_loop(sorted_entries(md.entries), md, evict_target)

\* history: no Cache call yet
NoCacheCall ==
    [op |-> "none", url |-> NoUrl, params |-> NoParams,
     ttl |-> NoTtl, data |-> Miss, ret |-> Miss, expired |-> FALSE,
     evicted |-> FALSE, evict_total |-> 0, removed |-> {}, retained |-> {}]

\* history: the call that has just returned
CacheCall(op, url, params, ret) ==
    [NoCacheCall EXCEPT !.op = op, !.url = url,
                        !.params = params, !.ret = ret]

\* the created_at of each entry
created_ats(entries) == { entries[i].created_at : i \in 1..Len(entries) }

\* Cache.set(url, data, params, ttl)
Cache_set(url, data, params, ttl) ==
    /\ engine = "cache"
    /\ LET key == generate_key(url, params)
           over == metadata.total_size >= max_size_bytes
           md == IF over THEN evict_oldest(metadata) ELSE metadata
           e == [key |-> key, created_at |-> clock,
                 expires_at |-> clock + effective_ttl(ttl),
                 size |-> pickled_size(data)]
       IN  /\ metadata' = [entries |-> put_entry(md.entries, e),
                           total_size |-> md.total_size + e.size]
           /\ cache_files' =
                 [k \in DOMAIN files_of(cache_files, md.entries) \cup {key} |->
                     IF k = key THEN data ELSE cache_files[k]]
           /\ cache_last' =
                 [CacheCall("set", url, params, "True") EXCEPT
                     !.ttl = ttl, !.data = data, !.evicted = over,
                     !.evict_total = IF over THEN md.total_size ELSE 0,
                     !.removed = IF over
                                    THEN created_ats(SelectSeq(metadata.entries,
                                            LAMBDA x : ~has_entry(md.entries, x.key)))
                                    ELSE {},
                     !.retained = IF over THEN created_ats(md.entries) ELSE {}]
    /\ UNCHANGED <<crawlVars, rlVars, moreVars, fetchVars, backoffVars,
                   adaptiveVars, clock,
                   default_ttl,
                   max_size_bytes>>

\* Cache.delete(url, params) on the metadata and files: the file unlinked,
\* the entry popped, its size subtracted
delete_entry(md, key) ==
    [entries |-> pop_entry(md.entries, key),
     total_size |-> md.total_size - entry_of(md.entries, key).size]

\* Cache.get(url, params)
Cache_get(url, params) ==
    /\ engine = "cache"
    /\ LET key == generate_key(url, params)
       IN  IF ~has_entry(metadata.entries, key)
              THEN /\ cache_last' = CacheCall("get", url, params, Miss)
                   /\ UNCHANGED <<metadata, cache_files>>
           ELSE IF is_expired(entry_of(metadata.entries, key))
              THEN /\ metadata' = delete_entry(metadata, key)
                   /\ cache_files' = files_of(cache_files, metadata'.entries)
                   /\ cache_last' = [CacheCall("get", url, params, Miss)
                                       EXCEPT !.expired = TRUE]
           ELSE IF key \notin DOMAIN cache_files
              THEN /\ metadata' = delete_entry(metadata, key)
                   /\ cache_files' = cache_files
                   /\ cache_last' = CacheCall("get", url, params, Miss)
           ELSE /\ cache_last' = CacheCall("get", url, params, cache_files[key])
                /\ UNCHANGED <<metadata, cache_files>>
    /\ UNCHANGED <<crawlVars, rlVars, moreVars, fetchVars, backoffVars,
                   adaptiveVars, clock,
                   default_ttl,
                   max_size_bytes>>

\* Cache.delete(url, params)
Cache_delete(url, params) ==
    /\ engine = "cache"
    /\ LET key == generate_key(url, params)
       IN  IF ~has_entry(metadata.entries, key)
              THEN /\ cache_last' = CacheCall("delete", url, params, "False")
                   /\ UNCHANGED <<metadata, cache_files>>
              ELSE /\ metadata' = delete_entry(metadata, key)
                   /\ cache_files' = files_of(cache_files, metadata'.entries)
                   /\ cache_last' = CacheCall("delete", url, params, "True")
    /\ UNCHANGED <<crawlVars, rlVars, moreVars, fetchVars, backoffVars,
                   adaptiveVars, clock,
                   default_ttl,
                   max_size_bytes>>

\* Cache.clear()
Cache_clear ==
    /\ engine = "cache"
    /\ metadata' = [entries |-> <<>>, total_size |-> 0]
    /\ cache_files' = <<>>
    /\ cache_last' = CacheCall("clear", NoUrl, NoParams, "count")
    /\ UNCHANGED <<crawlVars, rlVars, moreVars, fetchVars, backoffVars,
                   adaptiveVars, clock,
                   default_ttl,
                   max_size_bytes>>

\* the clock advances by one tick
Cache_Tick ==
    /\ engine = "cache"
    /\ clock < MaxCacheTime
    /\ clock' = clock + 1
    /\ UNCHANGED <<crawlVars, rlVars, moreVars, fetchVars, backoffVars, adaptiveVars,
                   cacheVars>>

CacheNext ==
    \/ \E url \in CacheUrls, data \in Data, params \in Params, ttl \in Ttls :
          Cache_set(url, data, params, ttl)
    \/ \E url \in CacheUrls, params \in Params : Cache_get(url, params)
    \/ \E url \in CacheUrls, params \in Params : Cache_delete(url, params)
    \/ Cache_clear
    \/ Cache_Tick


---------------------------------------------------------------------------
(* BaseScraper.fetch (src/core/scraper.py)                                 *)
(* One call of fetch is followed.  Times are in tenths of a second.  One   *)
(* self.session.request call is one request: the responses it returns are *)
(* the environment's.  time.sleep does not return early.                   *)

\* the largest Retry-After a server sends, in seconds
MaxRetryAfter == 30

\* `max_429_retries = 3`
max_429_retries == 3
\* `base_delay = 2.0`, in tenths of a second
base_delay == 20
\* `float(retry_after) * 1.1`: tenths of a second per second of Retry-After
RetryAfterBuffer == 11

\* the Retry-After header of a 429 response: absent, an HTTP date (float()
\* raises ValueError) or a number of seconds
NoRetryAfter == [kind |-> "absent", seconds |-> 0]
DateRetryAfter == [kind |-> "date", seconds |-> 0]
RetryAfterSeconds(r) == [kind |-> "seconds", seconds |-> r]
RetryAfters == {NoRetryAfter, DateRetryAfter}
                 \cup { RetryAfterSeconds(r) : r \in {5, MaxRetryAfter} }

\* `if retry_after:` and float(retry_after) succeed
is_numeric(retry_after) == retry_after.kind = "seconds"

\* random.uniform(0.5, 1.5), in tenths
Jitters == {5, 15}
\* random.uniform(5, 15) seconds, in tenths of a second
HumanExtras == {50, 150}
\* the time a request takes, the delay _apply_human_delay sleeps and the
\* time a sleep takes beyond its argument
Elapsed == {0, 1}
HumanDelays == {10}
Oversleeps == {0, 1}

\* the URLs fetched
FetchUrls == {Plain(SeedHost, SeedPath), Plain(OtherHost, OtherPath)}

\* no response yet
NoResponse == [status_code |-> 0, retry_after |-> NoRetryAfter, cached |-> FALSE]
Response(status, retry_after) ==
    [status_code |-> status, retry_after |-> retry_after, cached |-> FALSE]

\* no exception
NoException == [type |-> "none", status |-> 0, domain |-> NoDomain]

\* the statuses raise_for_status raises HTTPError for, and the exceptions
\* session.request raises
ErrorStatuses == {404, 500}
RequestExceptions == {"RetryError", "ConnectionError"}

\* 2 ** attempt
RECURSIVE pow2(_)
pow2(n) == IF n = 0 THEN 1 ELSE 2 * pow2(n - 1)

Max(a, b) == IF a >= b THEN a ELSE b
Min(a, b) == IF a <= b THEN a ELSE b

\* a plausible slip: the sleep and `continue` taken on every 429
retries_remain_always(a) == TRUE

\* a plausible slip: the loop bound tested inclusively
retries_remain_one_more(a) == a <= max_429_retries

\* `if attempt < max_429_retries`
retries_remain(a) == a < max_429_retries

\* a plausible slip: the Retry-After header not consulted
retry_delay_ignoring_header(a, jitter, retry_after, extra) ==
    (base_delay * pow2(a) * jitter) \div 10 + extra

\* the delay slept after a 429: backoff with jitter, raised to 1.1 times the
\* Retry-After when it is a number, plus the human-like extra
retry_delay(a, jitter, retry_after, extra) ==
    (IF is_numeric(retry_after)
        THEN Max((base_delay * pow2(a) * jitter) \div 10,
                 retry_after.seconds * RetryAfterBuffer)
        ELSE (base_delay * pow2(a) * jitter) \div 10)
    + extra

\* fetch up to the retry loop: the request counted, the cache consulted
\* (GET with use_cache), the human delay slept
Fetch_Call(url, use_cache, cached, pre_delay) ==
    /\ engine = "fetch" /\ fetch_pc = "idle"
    /\ ~use_cache => ~cached
    /\ fetch_url' = url
    /\ scraper_stats' = [scraper_stats EXCEPT
                            !.requests_made = @ + 1,
                            !.cache_hits = IF cached THEN @ + 1 ELSE @]
    /\ IF use_cache /\ cached
          THEN /\ fetch_pc' = "returned"
               /\ response' = [Response(200, NoRetryAfter) EXCEPT !.cached = TRUE]
               /\ clock' = clock
          ELSE /\ fetch_pc' = "request"
               /\ response' = response
               /\ clock' = clock + (IF human_behavior THEN pre_delay ELSE 0)
    /\ UNCHANGED <<crawlVars, rlVars, moreVars, cacheVars, backoffVars, adaptiveVars,
                   human_behavior, attempt,
                   response_time, delay, requests_sent, fetch_raised>>

\* one iteration of the loop, the response has status 429: the sleep is
\* computed while retries remain, HTTPError is raised (and re-raised by the
\* handler of RequestException, uncounted) when none does
Fetch_Request429(elapsed, retry_after, jitter, extra) ==
    /\ engine = "fetch" /\ fetch_pc = "request"
    /\ requests_sent' = requests_sent + 1
    /\ clock' = clock + elapsed
    /\ response_time' = clock'
    /\ response' = Response(429, retry_after)
    /\ scraper_stats' = [scraper_stats EXCEPT !.rate_limited = @ + 1]
    /\ IF retries_remain(attempt)
          THEN /\ delay' = retry_delay(attempt, jitter, retry_after,
                                        IF human_behavior THEN extra ELSE 0)
               /\ fetch_pc' = "sleep"
               /\ fetch_raised' = fetch_raised
          ELSE /\ delay' = delay
               /\ fetch_pc' = "raised"
               /\ fetch_raised' = [type |-> "HTTPError", status |-> 429,
                                   domain |-> netloc(fetch_url)]
    /\ UNCHANGED <<crawlVars, rlVars, moreVars, cacheVars, backoffVars, adaptiveVars,
                   human_behavior, fetch_url,
                   attempt>>

\* time.sleep(delay), then `continue`: the next iteration, or the end of
\* the loop and of the function
Fetch_Sleep(over) ==
    /\ engine = "fetch" /\ fetch_pc = "sleep"
    /\ clock' = clock + delay + over
    /\ attempt' = attempt + 1
    /\ fetch_pc' = IF attempt + 1 <= max_429_retries THEN "request" ELSE "returned"
    /\ response' = IF attempt + 1 <= max_429_retries THEN response ELSE NoResponse
    /\ UNCHANGED <<crawlVars, rlVars, moreVars, cacheVars, backoffVars, adaptiveVars,
                   human_behavior, fetch_url,
                   response_time, delay, requests_sent, scraper_stats,
                   fetch_raised>>

\* one iteration of the loop, the response has status 200: it is cached,
\* the human delay slept and the response returned
Fetch_RequestOk(elapsed, post_delay) ==
    /\ engine = "fetch" /\ fetch_pc = "request"
    /\ requests_sent' = requests_sent + 1
    /\ response_time' = clock + elapsed
    /\ clock' = clock + elapsed + (IF human_behavior THEN post_delay ELSE 0)
    /\ response' = Response(200, NoRetryAfter)
    /\ fetch_pc' = "returned"
    /\ UNCHANGED <<crawlVars, rlVars, moreVars, cacheVars, backoffVars, adaptiveVars,
                   human_behavior, fetch_url,
                   attempt, delay, scraper_stats, fetch_raised>>

\* one iteration of the loop, raise_for_status raises HTTPError for the
\* response: the error is counted and raised again
Fetch_RequestBadStatus(elapsed, status) ==
    /\ engine = "fetch" /\ fetch_pc = "request"
    /\ requests_sent' = requests_sent + 1
    /\ clock' = clock + elapsed
    /\ response_time' = clock'
    /\ response' = Response(status, NoRetryAfter)
    /\ scraper_stats' = [scraper_stats EXCEPT !.errors = @ + 1]
    /\ fetch_pc' = "raised"
    /\ fetch_raised' = [type |-> "HTTPError", status |-> status,
                        domain |-> NoDomain]
    /\ UNCHANGED <<crawlVars, rlVars, moreVars, cacheVars, backoffVars, adaptiveVars,
                   human_behavior, fetch_url,
                   attempt, delay>>

\* one iteration of the loop, session.request raises: the error is counted
\* and raised again
Fetch_RequestRaises(elapsed, exception) ==
    /\ engine = "fetch" /\ fetch_pc = "request"
    /\ requests_sent' = requests_sent + 1
    /\ clock' = clock + elapsed
    /\ scraper_stats' = [scraper_stats EXCEPT
                            !.errors = @ + 1,
                            !.retries = IF exception = "RetryError"
                                           THEN @ + max_429_retries ELSE @]
    /\ fetch_pc' = "raised"
    /\ fetch_raised' = [type |-> exception, status |-> 0, domain |-> NoDomain]
    /\ UNCHANGED <<crawlVars, rlVars, moreVars, cacheVars, backoffVars, adaptiveVars,
                   human_behavior, fetch_url,
                   attempt, response, response_time, delay>>

FetchNext ==
    \/ \E url \in FetchUrls, use_cache \in BOOLEAN, cached \in BOOLEAN,
          pre_delay \in HumanDelays : Fetch_Call(url, use_cache, cached, pre_delay)
    \/ \E elapsed \in Elapsed, retry_after \in RetryAfters, jitter \in Jitters,
          extra \in HumanExtras : Fetch_Request429(elapsed, retry_after, jitter, extra)
    \/ \E over \in Oversleeps : Fetch_Sleep(over)
    \/ \E elapsed \in Elapsed, post_delay \in HumanDelays :
          Fetch_RequestOk(elapsed, post_delay)
    \/ \E elapsed \in Elapsed, status \in ErrorStatuses :
          Fetch_RequestBadStatus(elapsed, status)
    \/ \E elapsed \in Elapsed, exception \in RequestExceptions :
          Fetch_RequestRaises(elapsed, exception)


---------------------------------------------------------------------------
(* ExponentialBackoff (src/utils/human_behavior.py)                        *)
(* Delays and the multiplier are in tenths.                                *)

\* get_delay is followed up to this value of self.attempt
MaxAttempts == 4
\* the largest max_delay a backoff is constructed with, in tenths of a second
MaxBackoffDelay == 80

\* x ** n
RECURSIVE power(_, _)
power(x, n) == IF n = 0 THEN 1 ELSE x * power(x, n - 1)

\* a plausible slip: the cap left out
exponential_delay_uncapped(b) ==
    (b.base_delay * power(b.multiplier, b.attempt)) \div power(10, b.attempt)

\* min(self.base_delay * (self.multiplier ** self.attempt), self.max_delay)
exponential_delay(b) ==
    Min((b.base_delay * power(b.multiplier, b.attempt)) \div power(10, b.attempt),
        b.max_delay)

\* the delay get_delay returns: the exponential delay moved by the jitter
\* drawn (j tenths of jitter_value, between -10 and 10), scaled by the
\* human variation h (8..12 tenths), and not below base_delay
returned_delay(b, j, h) ==
    Max(((exponential_delay(b)
            + IF b.jitter > 0
                 THEN (exponential_delay(b) * b.jitter * j) \div 100 ELSE 0)
         * h) \div 10,
        b.base_delay)

\* ExponentialBackoff.get_delay()
BO_get_delay(j, h) ==
    /\ engine = "backoff"
    /\ backoff.attempt < MaxAttempts
    /\ backoff_delays' = Append(backoff_delays,
                                [computed |-> exponential_delay(backoff),
                                 returned |-> returned_delay(backoff, j, h)])
    /\ backoff' = [backoff EXCEPT !.attempt = @ + 1]
    /\ UNCHANGED <<crawlVars, rlVars, moreVars, clock, cacheVars, fetchVars,
                   adaptiveVars>>

\* ExponentialBackoff.reset()
BO_reset ==
    /\ engine = "backoff"
    /\ backoff' = [backoff EXCEPT !.attempt = 0]
    /\ backoff_delays' = <<>>
    /\ UNCHANGED <<crawlVars, rlVars, moreVars, clock, cacheVars, fetchVars,
                   adaptiveVars>>

BackoffNext ==
    \/ \E j \in {-10, 0, 10}, h \in {8, 10, 12} : BO_get_delay(j, h)
    \/ BO_reset


---------------------------------------------------------------------------
(* AdaptiveRateLimiter (src/utils/rate_limiter.py)                         *)
(* record_success and record_error run under self.lock: one call is one    *)
(* step.  Delays are in tenths of a second, factors in tenths.             *)

\* the largest max_delay a limiter is constructed with, in tenths of a second
MaxAdaptiveDelay == 20

\* `if self.success_count[domain] >= 5`
SuccessesToDecrease == 5
\* `self.error_count[domain] >= 3`
ErrorsToIncrease == 3
\* `current_delay * 0.9`, in tenths
DecreaseFactor == 9

\* the argument status_code of record_error: None (0 here), 429, 500
StatusCodes == {0, 429, 500}

\* RateLimiter.update_domain_delay: self.domain_delays[domain] = delay
update_domain_delay(domain, new_delay) ==
    [d \in DOMAIN domain_delays \cup {domain} |->
        IF d = domain THEN new_delay ELSE domain_delays[d]]

\* a plausible slip: the delay lowered at every success
successes_reached_at_once(n) == n >= 1

\* `if self.success_count[domain] >= 5`
successes_reached(n) == n >= SuccessesToDecrease

\* a plausible slip: the delay raised for rate limit errors only
should_increase_on_429_only(status_code, errors) == status_code = 429

\* `if status_code == 429 or self.error_count[domain] >= 3`
should_increase(status_code, errors) ==
    status_code = 429 \/ errors >= ErrorsToIncrease

\* max(self.min_delay, current_delay * 0.9)
decreased_delay(current_delay) ==
    Max(adaptive.min_delay, (current_delay * DecreaseFactor) \div 10)

\* a plausible slip: the raised delay not capped at max_delay
increased_delay_uncapped(current_delay) ==
    (current_delay * adaptive.backoff_factor) \div 10

\* min(self.max_delay, current_delay * self.backoff_factor)
increased_delay(current_delay) ==
    Min(adaptive.max_delay, (current_delay * adaptive.backoff_factor) \div 10)

\* history: the call that has just returned
AdaptiveCall(op, domain, status_code) ==
    [op |-> op, domain |-> domain, status_code |-> status_code,
     flip |-> ~adaptive_last.flip]

\* AdaptiveRateLimiter.record_success(domain)
AR_record_success(domain) ==
    /\ engine = "adaptive"
    /\ error_count' = [error_count EXCEPT ![domain] = 0]
    /\ IF successes_reached(success_count[domain] + 1)
          THEN /\ domain_delays' =
                     update_domain_delay(domain,
                         decreased_delay(get_delay_for_domain(domain)))
               /\ success_count' = [success_count EXCEPT ![domain] = 0]
          ELSE /\ domain_delays' = domain_delays
               /\ success_count' = [success_count EXCEPT ![domain] = @ + 1]
    /\ streak' = [streak EXCEPT ![domain] =
                     IF domain \in DOMAIN domain_delays'
                        /\ domain_delays'[domain] < get_delay_for_domain(domain)
                        THEN 0 ELSE Min(@ + 1, SuccessesToDecrease)]
    /\ adaptive_last' = AdaptiveCall("record_success", domain, 0)
    /\ UNCHANGED <<crawlVars, default_delay, now, last_request_time, lock,
                   callers, returns, clock, cacheVars, fetchVars, backoffVars,
                   adaptive, moreVars>>

\* AdaptiveRateLimiter.record_error(domain, status_code)
AR_record_error(domain, status_code) ==
    /\ engine = "adaptive"
    /\ success_count' = [success_count EXCEPT ![domain] = 0]
    /\ IF should_increase(status_code, error_count[domain] + 1)
          THEN /\ domain_delays' =
                     update_domain_delay(domain,
                         increased_delay(get_delay_for_domain(domain)))
               /\ error_count' = [error_count EXCEPT ![domain] = 0]
          ELSE /\ domain_delays' = domain_delays
               /\ error_count' = [error_count EXCEPT ![domain] = @ + 1]
    /\ streak' = [streak EXCEPT ![domain] = 0]
    /\ adaptive_last' = AdaptiveCall("record_error", domain, status_code)
    /\ UNCHANGED <<crawlVars, default_delay, now, last_request_time, lock,
                   callers, returns, clock, cacheVars, fetchVars, backoffVars,
                   adaptive, moreVars>>

AdaptiveNext ==
    \/ \E d \in Hosts : AR_record_success(d)
    \/ \E d \in Hosts, status_code \in StatusCodes : AR_record_error(d, status_code)


---------------------------------------------------------------------------
(* RelevanceAnalyzer.calculate_relevance_score                             *)
(* (src/core/relevance_analyzer.py)                                        *)
(* The scores of the single signals are in hundredths.  A relevance score  *)
(* is the fraction num / den, so that the division by the total weight and *)
(* the penalty factors 0.1 and 0.5 are exact.                              *)

\* an optional argument that is None or empty
Absent == [present |-> FALSE, score |-> 0, navigation |-> FALSE]
\* an optional argument with the score its text earns, and whether
\* _is_navigation_link holds of it
Given(score, navigation) ==
    [present |-> TRUE, score |-> score, navigation |-> navigation]

\* the arguments of a call, each signal reduced to the score that its
\* _score_* function returns (all of them in [0, 1]) and the URL to whether
\* _is_unrelated_url holds of it
ScoreInputs ==
    [url_score : {0, 50, 100},
     domain_score : {0, 50, 70, 80, 100},
     link_text : {Absent} \cup { Given(sc, n) : sc \in {0, 40, 100}, n \in BOOLEAN },
     link_context : {Absent} \cup { Given(sc, FALSE) : sc \in {0, 100} },
     page_content : {Absent} \cup { Given(sc, FALSE) : sc \in {0, 100} },
     unrelated : BOOLEAN]

NoScoreInput ==
    [url_score |-> 0, domain_score |-> 0, link_text |-> Absent,
     link_context |-> Absent, page_content |-> Absent, unrelated |-> FALSE]
NoScore == [num |-> 0, den |-> 0]

\* the lists `scores` and `weights` (tenths) after the five `if` blocks
signals(inp) ==
    << <<inp.url_score, 2>>, <<inp.domain_score, 1>> >>
       \o (IF inp.link_text.present THEN << <<inp.link_text.score, 3>> >> ELSE <<>>)
       \o (IF inp.link_context.present
              THEN << <<inp.link_context.score, 2>> >> ELSE <<>>)
       \o (IF inp.page_content.present
              THEN << <<inp.page_content.score, 2>> >> ELSE <<>>)

RECURSIVE weighted_sum(_)
weighted_sum(sw) ==
    IF sw = <<>> THEN 0 ELSE Head(sw)[1] * Head(sw)[2] + weighted_sum(Tail(sw))

RECURSIVE sum_of_weights(_)
sum_of_weights(sw) ==
    IF sw = <<>> THEN 0 ELSE Head(sw)[2] + sum_of_weights(Tail(sw))

\* total_weight = sum(weights[:len(scores)])
total_weight(sw) == sum_of_weights(sw)

\* sum(s * w for s, w in zip(scores, normalized_weights))
weighted_average(sw) ==
    [num |-> weighted_sum(sw), den |-> 100 * total_weight(sw)]

\* a plausible slip: the penalty for unrelated URLs left out
penalized_for_navigation_only(score, unrelated, navigation) ==
    [num |-> score.num, den |-> score.den * (IF navigation THEN 2 ELSE 1)]

\* relevance_score *= 0.1 for an unrelated URL, *= 0.5 for a navigation link
penalized(score, unrelated, navigation) ==
    [num |-> score.num,
     den |-> score.den * (IF unrelated THEN 10 ELSE 1)
                       * (IF navigation THEN 2 ELSE 1)]

\* min(max(relevance_score, 0.0), 1.0)
clamped(score) ==
    IF score.num < 0 THEN [num |-> 0, den |-> 1]
    ELSE IF score.num > score.den THEN [num |-> 1, den |-> 1]
    ELSE score

\* RelevanceAnalyzer.calculate_relevance_score
calculate_relevance_score(inp) ==
    clamped(penalized(weighted_average(signals(inp)), inp.unrelated,
                      inp.link_text.present /\ inp.link_text.navigation))

\* one call of calculate_relevance_score returns
RA_calculate_relevance_score ==
    /\ engine = "score"
    /\ score_out = NoScore
    /\ score_out' = calculate_relevance_score(score_in)
    /\ UNCHANGED <<baseVars, score_in, webVars, restVars>>

ScoreNext == RA_calculate_relevance_score

---------------------------------------------------------------------------
(* AsyncWebScraper.crawl_async (src/core/async_scraper.py)                 *)
(* One coroutine runs the loop; `visited`, `queue` and `results` are its   *)
(* local variables, modelled by visited_urls, queued_urls and results.     *)
(* The WebCrawler it constructs only serves crawl_page: its own            *)
(* visited_urls stays empty, and follow_external_links is False.           *)

\* what makes `await async_fetch_wrapper(url)` raise: fetch_async raises
\* NetworkError for an aiohttp.ClientError, or another exception escapes
ScraperFailOutcomes == {"NetworkError", "exception"}

\* result.links of crawler.crawl_page: each href normalized, kept when
\* valid and to be followed (no URL is in the crawler's own visited_urls)
crawl_page_links(hrefs, base_url) ==
    SelectSeq(MapSeq(WebCrawler_normalize_url, hrefs),
              LAMBDA u : /\ is_valid_url(u, netloc(base_url))
                         /\ should_follow_url(u, start_domain_after(base_url)))

\* `while queue and len(results) < max_pages`
scraper_loop_condition == queued_urls # <<>> /\ Len(results) < max_pages

\* crawl_async up to the loop: queue = [(start_url, 0)], as given
AS_Crawl(start_url) ==
    /\ engine = "scraper" /\ pc = "idle"
    /\ visited_urls' = {}
    /\ results' = <<>>
    /\ queued_urls' = << <<start_url, 0>> >>
    /\ pc' = "loop"
    /\ UNCHANGED <<cfgVars, stats, cur, result, start_domain, allowed_domains,
                   seed_analyzed, futures, workers, unfinished, raised,
                   last_outcome, fetch_calls, handed, rlVars, utilVars,
                   queued_scores>>

\* queue.pop(0), `if url in visited or depth > max_depth: continue`
AS_Skip ==
    /\ engine = "scraper" /\ pc = "loop"
    /\ scraper_loop_condition
    /\ \/ Head(queued_urls)[1] \in visited_urls
       \/ Head(queued_urls)[2] > max_depth
    /\ queued_urls' = Tail(queued_urls)
    /\ UNCHANGED <<cfgVars, pc, visited_urls, results, stats, cur, result,
                   start_domain, allowed_domains, seed_analyzed, futures,
                   workers, unfinished, raised, last_outcome, fetch_calls,
                   handed, rlVars, utilVars, queued_scores>>

\* queue.pop(0), visited.add(url), and the coroutine suspends in
\* `await async_fetch_wrapper(url)`
AS_Visit ==
    /\ engine = "scraper" /\ pc = "loop"
    /\ scraper_loop_condition
    /\ Head(queued_urls)[1] \notin visited_urls
    /\ Head(queued_urls)[2] <= max_depth
    /\ queued_urls' = Tail(queued_urls)
    /\ visited_urls' = visited_urls \cup {Head(queued_urls)[1]}
    /\ cur' = [url |-> Head(queued_urls)[1], depth |-> Head(queued_urls)[2]]
    /\ pc' = "fetch"
    /\ UNCHANGED <<cfgVars, results, stats, result, start_domain,
                   allowed_domains, seed_analyzed, futures, workers, unfinished,
                   raised, last_outcome, fetch_calls, handed, rlVars, utilVars,
                   queued_scores>>

\* the fetch returns the page: crawl_page builds the result from it,
\* results.append(result), the links not visited are queued
AS_FetchOk(hrefs) ==
    /\ engine = "scraper" /\ pc = "fetch"
    /\ cur.depth >= max_depth => hrefs = <<>>
    /\ CountFetch(cur.url)
    /\ last_outcome' = "ok"
    /\ start_domain' = IF cur.depth < max_depth
                          THEN start_domain_after(cur.url) ELSE start_domain
    /\ stats' = count_successful(stats)
    /\ results' = Append(results, Recorded(CrawlResult(cur.url, cur.depth)))
    /\ queued_urls' = IF cur.depth < max_depth
                         THEN enqueue_links(crawl_page_links(hrefs, cur.url),
                                            cur.depth)
                         ELSE queued_urls
    /\ cur' = NoCur
    /\ pc' = "loop"
    /\ UNCHANGED <<cfgVars, visited_urls, result, allowed_domains,
                   seed_analyzed, futures, workers, unfinished, raised, handed,
                   rlVars, utilVars, queued_scores>>

\* the fetch raises: `except Exception as e: logger.error(...)`, and the
\* loop goes on
AS_FetchRaises(outcome) ==
    /\ engine = "scraper" /\ pc = "fetch"
    /\ CountFetch(cur.url)
    /\ last_outcome' = outcome
    /\ cur' = NoCur
    /\ pc' = "loop"
    /\ UNCHANGED <<cfgVars, visited_urls, queued_urls, results, stats, result,
                   start_domain, allowed_domains, seed_analyzed, futures,
                   workers, unfinished, raised, handed, rlVars, utilVars,
                   queued_scores>>

\* the loop condition is false: return results
AS_Return ==
    /\ engine = "scraper" /\ pc = "loop"
    /\ ~scraper_loop_condition
    /\ pc' = "done"
    /\ UNCHANGED <<cfgVars, visited_urls, queued_urls, results, stats, cur,
                   result, start_domain, allowed_domains, seed_analyzed,
                   futures, workers, unfinished, raised, last_outcome,
                   fetch_calls, handed, rlVars, utilVars, queued_scores>>

AsyncWebScraperNext ==
    \/ \E s \in Seeds : AS_Crawl(s)
    \/ AS_Skip
    \/ AS_Visit
    \/ \E hrefs \in LinkLists : AS_FetchOk(hrefs)
    \/ \E o \in ScraperFailOutcomes : AS_FetchRaises(o)
    \/ AS_Return


---------------------------------------------------------------------------
(* BaseScraper: successive calls of fetch (src/core/scraper.py)            *)
(* One scraper instance serves GET calls one after the other; each call is *)
(* followed from entry to return.  Times are in ticks; headers are sets of *)
(* header names, a header's value being fixed by its name.                 *)

\* cache_ttl in ticks, and the calls and the time that are followed
cache_ttl == 2
MaxCalls == 2
MaxSessionTime == 3

\* the headers a caller passes, and those StealthSession.get_headers returns
CallerHeaders == { {}, {"Authorization"} }
StealthHeaders == {"User-Agent", "Accept-Encoding"}

\* how the call's loop ends: the number of 429 responses before the final
\* response, and the final response (none after a 429 on the last attempt)
FinalOutcomes == {200, 404, 0}
CallOutcomes ==
    { [rate_limited |-> k, final |-> f] : k \in {0, 1}, f \in FinalOutcomes }
      \cup { [rate_limited |-> max_429_retries + 1, final |-> 429] }

\* BaseScraper._get_cache_key: the digest of the URL, the method, the
\* params (none here) and the headers other than Cookie and Authorization;
\* equal digests for equal data
get_cache_key(url, method, headers) ==
    [url |-> url, method |-> method,
     headers |-> headers \ {"Cookie", "Authorization"}]

\* _get_from_cache finds a response that is young enough
cache_hit(key) ==
    /\ key \in DOMAIN memory_cache
    /\ clock - memory_cache[key] < cache_ttl

\* the headers in kwargs once the stealth headers are merged in
request_headers(headers) ==
    IF use_stealth THEN headers \cup StealthHeaders ELSE headers

\* `if self.stats['requests_made'] > 0: self._apply_human_delay(url)`, with
\* the counter as it is once fetch has incremented it
pre_delay_applied(requests_made) == requests_made > 0 /\ human_behavior

\* one call of fetch(url, "GET", use_cache, headers=headers), from entry to
\* return or raise; of self.stats, requests_made and cache_hits are followed
BS_fetch(url, headers, use_cache, outcome, elapsed) ==
    /\ engine = "session"
    /\ fetch_log.seq < MaxCalls
    /\ clock + elapsed <= MaxSessionTime
    /\ IF use_cache /\ cache_hit(get_cache_key(url, "GET", headers))
          THEN /\ scraper_stats' = [scraper_stats EXCEPT
                                       !.requests_made = @ + 1,
                                       !.cache_hits = @ + 1]
               /\ fetch_log' = [seq |-> fetch_log.seq + 1, url |-> url,
                                headers |-> headers, use_cache |-> use_cache,
                                from_cache |-> TRUE, pre_delay |-> FALSE,
                                first_request |-> FALSE,
                                requests |-> 0, status |-> 200,
                                time |-> clock]
               /\ UNCHANGED <<clock, memory_cache, requests_sent>>
          ELSE /\ scraper_stats' = [scraper_stats EXCEPT !.requests_made = @ + 1]
               /\ clock' = clock + elapsed
               /\ requests_sent' = requests_sent
                     + (IF outcome.final = 429 THEN outcome.rate_limited
                                               ELSE outcome.rate_limited + 1)
               /\ memory_cache' =
                     IF use_cache /\ outcome.final = 200
                        THEN [k \in DOMAIN memory_cache
                                    \cup {get_cache_key(url, "GET",
                                                         request_headers(headers))}
                                |-> IF k = get_cache_key(url, "GET",
                                                         request_headers(headers))
                                       THEN clock' ELSE memory_cache[k]]
                        ELSE memory_cache
               /\ fetch_log' = [seq |-> fetch_log.seq + 1, url |-> url,
                                headers |-> headers, use_cache |-> use_cache,
                                from_cache |-> FALSE,
                                pre_delay |->
                                   pre_delay_applied(scraper_stats'.requests_made),
                                first_request |-> requests_sent = 0,
                                requests |-> requests_sent' - requests_sent,
                                status |-> outcome.final,
                                time |-> clock']
    /\ UNCHANGED <<crawlVars, rlVars, cacheVars, backoffVars, adaptiveVars,
                   human_behavior, fetch_pc, fetch_url, attempt, response,
                   response_time, delay, fetch_raised, scoreVars, webVars,
                   use_stealth, rqVars, runs>>

\* time passes between two calls
BS_Tick ==
    /\ engine = "session"
    /\ clock < MaxSessionTime
    /\ clock' = clock + 1
    /\ UNCHANGED <<crawlVars, rlVars, cacheVars, fetchVars, backoffVars,
                   adaptiveVars, moreVars>>

SessionNext ==
    \/ \E url \in FetchUrls, headers \in CallerHeaders, use_cache \in BOOLEAN,
          outcome \in CallOutcomes, elapsed \in Elapsed :
          BS_fetch(url, headers, use_cache, outcome, elapsed)
    \/ BS_Tick


---------------------------------------------------------------------------
(* RequestQueue (src/utils/rate_limiter.py)                                *)
(* acquire tests and increments active_requests under self.lock, release   *)
(* decrements it under self.lock: the locked block is one step.  acquire   *)
(* first waits in the rate limiter, which only delays the step; a thread   *)
(* that finds no free slot sleeps and tests again.  A thread calls         *)
(* release() for a slot it acquired, and enters and leaves `with queue:`.  *)

\* the threads that use one queue
NumQueueThreads == 3
QueueThreads == 1..NumQueueThreads

\* the largest max_concurrent a queue is constructed with
MaxConcurrentBound == 2

\* a thread that holds no slot and is outside a `with queue:` block
IdleThread == [held |-> FALSE, in_with |-> FALSE]

\* the threads that have acquired a slot and not yet released it
slot_holders == { t \in DOMAIN rq_threads : rq_threads[t].held }

\* `self.active_requests = max(0, self.active_requests - 1)`
released(n) == Max(0, n - 1)

\* RequestQueue.acquire(domain): the iteration that finds a free slot
RQ_acquire(t) ==
    /\ engine = "queue"
    /\ ~rq_threads[t].held
    /\ active_requests < max_concurrent
    /\ active_requests' = active_requests + 1
    /\ rq_threads' = [rq_threads EXCEPT ![t].held = TRUE]
    /\ UNCHANGED <<baseVars, scoreVars, webVars, sessVars, max_concurrent, runs>>

\* RequestQueue.release() by a thread that holds a slot
RQ_release(t) ==
    /\ engine = "queue"
    /\ rq_threads[t].held
    /\ active_requests' = released(active_requests)
    /\ rq_threads' = [rq_threads EXCEPT ![t].held = FALSE]
    /\ UNCHANGED <<baseVars, scoreVars, webVars, sessVars, max_concurrent, runs>>

\* RequestQueue.__enter__: `return self`
RQ_enter(t) ==
    /\ engine = "queue"
    /\ ~rq_threads[t].in_with
    /\ rq_threads' = [rq_threads EXCEPT ![t].in_with = TRUE]
    /\ UNCHANGED <<baseVars, scoreVars, webVars, sessVars, max_concurrent,
                   active_requests, runs>>

\* RequestQueue.__exit__: `self.release()`
RQ_exit(t) ==
    /\ engine = "queue"
    /\ rq_threads[t].in_with
    /\ active_requests' = released(active_requests)
    /\ rq_threads' = [rq_threads EXCEPT ![t] = IdleThread]
    /\ UNCHANGED <<baseVars, scoreVars, webVars, sessVars, max_concurrent, runs>>

RequestQueueNext ==
    \/ \E t \in QueueThreads : RQ_acquire(t)
    \/ \E t \in QueueThreads : RQ_release(t)
    \/ \E t \in QueueThreads : RQ_enter(t)
    \/ \E t \in QueueThreads : RQ_exit(t)


---------------------------------------------------------------------------
(* Specification                                                           *)

Engines == {"web", "fast", "async", "smart"}

\* no crawl has been started
CrawlerIdle ==
    /\ pc = "idle"
    /\ visited_urls = {}
    /\ queued_urls = <<>>
    /\ results = <<>>
    /\ stats = CrawlStats
    /\ cur = NoCur
    /\ result = NoResult
    /\ start_domain = NoDomain
    /\ allowed_domains = NoDomains
    /\ seed_analyzed = FALSE
    /\ futures = <<>>
    /\ workers = {}
    /\ unfinished = 0
    /\ raised = "none"
    /\ last_outcome = "none"
    /\ fetch_calls = <<>>
    /\ handed = {}
    /\ queued_scores = <<>>

\* RateLimiter.__init__, and no thread inside wait_if_needed.  The clock
\* (seconds since the epoch) starts beyond every delay.
RateLimiterInit ==
    /\ default_delay \in 1..MaxDelay
    /\ domain_delays \in DomainDelays
    /\ now = MaxDelay
    /\ last_request_time = [d \in Hosts |-> 0]
    /\ lock = {}
    /\ callers = [t \in Threads |-> IdleCaller]
    /\ returns = [d \in Hosts |-> [time |-> -1, flip |-> FALSE]]

\* no Cache has been constructed
CacheIdle ==
    /\ default_ttl = 0
    /\ max_size_bytes = 0
    /\ metadata = [entries |-> <<>>, total_size |-> 0]
    /\ cache_files = <<>>
    /\ cache_last = NoCacheCall

\* BaseScraper.__init__, and no call of fetch
ScraperInit ==
    /\ fetch_pc = "idle"
    /\ fetch_url = NoUrl
    /\ attempt = 0
    /\ response = NoResponse
    /\ response_time = 0
    /\ delay = 0
    /\ requests_sent = 0
    /\ scraper_stats = [requests_made |-> 0, cache_hits |-> 0, errors |-> 0,
                        retries |-> 0, rate_limited |-> 0]
    /\ fetch_raised = NoException

\* ExponentialBackoff.__init__ with its default arguments
BackoffIdle ==
    /\ backoff = [base_delay |-> 10, max_delay |-> 3000, multiplier |-> 20,
                  jitter |-> 3, attempt |-> 0]
    /\ backoff_delays = <<>>

\* AdaptiveRateLimiter.__init__ with its default arguments, and no call
AdaptiveIdle ==
    /\ adaptive = [min_delay |-> 5, max_delay |-> 100, backoff_factor |-> 20]
    /\ success_count = [d \in Hosts |-> 0]
    /\ error_count = [d \in Hosts |-> 0]
    /\ streak = [d \in Hosts |-> 0]
    /\ adaptive_last = [op |-> "none", domain |-> NoDomain, status_code |-> 0,
                        flip |-> FALSE]

\* no call of calculate_relevance_score is under way
ScoreIdle ==
    /\ score_in = NoScoreInput
    /\ score_out = NoScore

\* config/blocked_domains.yaml is not found: no domain is blocked; the pages
\* of the web are not fixed
WebIdle ==
    /\ blocked_domains = {}
    /\ page_hrefs = <<>>

\* no BaseScraper session, no RequestQueue, the crawler's first run
NoFetch == [seq |-> 0]
SessIdle ==
    /\ use_stealth = TRUE
    /\ memory_cache = <<>>
    /\ fetch_log = NoFetch
RqIdle ==
    /\ max_concurrent = 0
    /\ active_requests = 0
    /\ rq_threads = <<>>
RestIdle ==
    /\ SessIdle
    /\ RqIdle
    /\ runs = 0

\* the remaining components are not in use
MoreIdle ==
    /\ ScoreIdle
    /\ WebIdle
    /\ RestIdle

\* the utilities are not in use
UtilIdle ==
    /\ clock = 0
    /\ CacheIdle
    /\ human_behavior = TRUE
    /\ ScraperInit
    /\ BackoffIdle
    /\ AdaptiveIdle
    /\ MoreIdle

\* a crawler as constructed: the crawls are followed with the limiter's
\* waits left out
Init ==
    /\ engine \in Engines
    /\ max_pages \in 1..MaxPagesBound
    /\ max_depth \in 0..MaxDepthBound
    /\ max_workers \in IF engine \in {"fast", "async"}
                          THEN 1..MaxWorkersBound ELSE {0}
    /\ follow_external_links \in IF engine \in {"web", "smart"}
                                    THEN BOOLEAN ELSE {TRUE}
    /\ min_relevance_score \in IF engine = "smart"
                                  THEN MinRelevanceScores
                                  ELSE {DefaultMinRelevance}
    /\ CrawlerIdle
    /\ RateLimiterInit
    /\ default_delay = 1
    /\ domain_delays = <<>>
    /\ UtilIdle

Next ==
    \/ WebCrawlerNext
    \/ FastCrawlerNext
    \/ AsyncFastCrawlerNext
    \/ SmartWebCrawlerNext

Spec == Init /\ [][Next]_vars

\* a rate limiter on its own, called by NumCallers threads
InitRL ==
    /\ engine = "none"
    /\ max_pages = 1
    /\ max_depth = 0
    /\ max_workers = 0
    /\ follow_external_links = TRUE
    /\ min_relevance_score = DefaultMinRelevance
    /\ CrawlerIdle
    /\ RateLimiterInit
    /\ UtilIdle

SpecRL == InitRL /\ [][RateLimiterNext]_vars

\* no crawler and no rate limiter in use
CrawlerUnused ==
    /\ max_pages = 1
    /\ max_depth = 0
    /\ max_workers = 0
    /\ follow_external_links = TRUE
    /\ min_relevance_score = DefaultMinRelevance
    /\ CrawlerIdle

\* the rate limiter is not in use
RateLimiterUnused ==
    /\ RateLimiterInit
    /\ default_delay = 1
    /\ domain_delays = <<>>

\* Cache.__init__ on an empty directory: no metadata file to load
InitCache ==
    /\ engine = "cache"
    /\ CrawlerUnused
    /\ RateLimiterUnused
    /\ clock = 0
    /\ default_ttl = MaxTtl + 1
    /\ max_size_bytes = MaxCacheSize
    /\ metadata = [entries |-> <<>>, total_size |-> 0]
    /\ cache_files = <<>>
    /\ cache_last = NoCacheCall
    /\ human_behavior = TRUE
    /\ ScraperInit
    /\ BackoffIdle
    /\ AdaptiveIdle
    /\ MoreIdle

SpecCache == InitCache /\ [][CacheNext]_vars

\* a scraper as constructed, with or without human behaviour
InitFetch ==
    /\ engine = "fetch"
    /\ CrawlerUnused
    /\ RateLimiterUnused
    /\ clock = 0
    /\ CacheIdle
    /\ human_behavior \in BOOLEAN
    /\ ScraperInit
    /\ BackoffIdle
    /\ AdaptiveIdle
    /\ MoreIdle

SpecFetch == InitFetch /\ [][FetchNext]_vars

\* ExponentialBackoff.__init__: base_delay and max_delay in tenths of a
\* second (max_delay may lie below base_delay), a multiplier of 1.0, 1.5 or
\* 2.0, jitter 0 or 0.3
InitBackoff ==
    /\ engine = "backoff"
    /\ CrawlerUnused
    /\ RateLimiterUnused
    /\ clock = 0
    /\ CacheIdle
    /\ human_behavior = TRUE
    /\ ScraperInit
    /\ backoff \in [base_delay : {10, 30}, max_delay : {20, MaxBackoffDelay},
                    multiplier : {10, 15, 20}, jitter : {0, 3}, attempt : {0}]
    /\ backoff_delays = <<>>
    /\ AdaptiveIdle
    /\ MoreIdle

SpecBackoff == InitBackoff /\ [][BackoffNext]_vars

\* AdaptiveRateLimiter.__init__: default_delay below or above min_delay
\* (0.5 s), max_delay, a backoff_factor of 1.5 or 2.0
InitAdaptive ==
    /\ engine = "adaptive"
    /\ CrawlerUnused
    /\ default_delay \in {3, 10}
    /\ domain_delays = <<>>
    /\ now = 0
    /\ last_request_time = [d \in Hosts |-> 0]
    /\ lock = {}
    /\ callers = [t \in Threads |-> IdleCaller]
    /\ returns = [d \in Hosts |-> [time |-> -1, flip |-> FALSE]]
    /\ clock = 0
    /\ CacheIdle
    /\ human_behavior = TRUE
    /\ ScraperInit
    /\ BackoffIdle
    /\ adaptive \in [min_delay : {5}, max_delay : {MaxAdaptiveDelay},
                     backoff_factor : {15, 20}]
    /\ success_count = [d \in Hosts |-> 0]
    /\ error_count = [d \in Hosts |-> 0]
    /\ streak = [d \in Hosts |-> 0]
    /\ adaptive_last = [op |-> "none", domain |-> NoDomain, status_code |-> 0,
                        flip |-> FALSE]
    /\ MoreIdle

SpecAdaptive == InitAdaptive /\ [][AdaptiveNext]_vars

\* a RelevanceAnalyzer and the arguments of a call
InitScore ==
    /\ engine = "score"
    /\ CrawlerUnused
    /\ RateLimiterUnused
    /\ clock = 0
    /\ CacheIdle
    /\ human_behavior = TRUE
    /\ ScraperInit
    /\ BackoffIdle
    /\ AdaptiveIdle
    /\ score_in \in ScoreInputs
    /\ score_out = NoScore
    /\ WebIdle
    /\ RestIdle

SpecScore == InitScore /\ [][ScoreNext]_vars

\* a BaseScraper as constructed, with or without stealth headers and
\* human-like delays
InitSession ==
    /\ engine = "session"
    /\ CrawlerUnused
    /\ RateLimiterUnused
    /\ clock = 0
    /\ CacheIdle
    /\ human_behavior \in BOOLEAN
    /\ ScraperInit
    /\ BackoffIdle
    /\ AdaptiveIdle
    /\ ScoreIdle
    /\ WebIdle
    /\ use_stealth \in BOOLEAN
    /\ memory_cache = <<>>
    /\ fetch_log = NoFetch
    /\ RqIdle
    /\ runs = 0

SpecSession == InitSession /\ [][SessionNext]_vars

\* RequestQueue.__init__ with max_concurrent of 1 or more, used by
\* NumQueueThreads threads
InitQueue ==
    /\ engine = "queue"
    /\ CrawlerUnused
    /\ RateLimiterUnused
    /\ clock = 0
    /\ CacheIdle
    /\ human_behavior = TRUE
    /\ ScraperInit
    /\ BackoffIdle
    /\ AdaptiveIdle
    /\ ScoreIdle
    /\ WebIdle
    /\ SessIdle
    /\ max_concurrent \in 1..MaxConcurrentBound
    /\ active_requests = 0
    /\ rq_threads = [t \in QueueThreads |-> IdleThread]
    /\ runs = 0

SpecQueue == InitQueue /\ [][RequestQueueNext]_vars

\* WebCrawler.crawl and FastCrawler.crawl_concurrent, whose termination is
\* followed: the caller's thread and the threads of the pool
InitSync == Init /\ engine \in {"web", "fast"}

SyncNext == WebCrawlerNext \/ FastCrawlerNext

\* what the threads of FastCrawler's pool do
FastPool ==
    \/ \E i \in 1..MaxWorkersBound, hrefs \in LinkLists : FC_ProcessPageOk(i, hrefs)
    \/ \E i \in 1..MaxWorkersBound, o \in FailOutcomes : FC_ProcessPageFail(i, o)

\* The caller's thread keeps running, and every fetch that a pool thread
\* has been handed returns or raises in the end.
FairSpec ==
    /\ InitSync /\ [][SyncNext]_vars
    /\ WF_vars(SyncNext)
    /\ WF_vars(FastPool)

\* AsyncFastCrawler.crawl_async with a progress_callback that may raise
InitAsync == Init /\ engine = "async"

\* what the event loop runs without waiting for the network
AsyncLoop ==
    \/ \E s \in Seeds : AC_Crawl(s)
    \/ AW_Skip
    \/ AW_Take
    \/ AC_Return

\* a suspended worker resumes: its fetch has returned, failed or timed out
AsyncResume ==
    \/ \E w \in workers, hrefs \in LinkLists : AW_ProcessPageOk(w, hrefs)
    \/ \E w \in workers, o \in AsyncFailOutcomes : AW_ProcessPageFail(w, o)
    \/ \E w \in workers : AW_WorkerError(w)

AsyncNext == AsyncLoop \/ AsyncResume \/ AW_Tick

\* The event loop keeps running, and every fetch returns in the end.
FairSpecAsync ==
    /\ InitAsync /\ [][AsyncNext]_vars
    /\ WF_vars(AsyncLoop)
    /\ WF_vars(AsyncResume)

\* a WebCrawler of depth 2 on a web of four pages, no domain blocked: the
\* start page, the page below it and one page on each of two other hosts
DeepWebPages == 4
DeepWebDepth == 2
InitDeepWeb ==
    /\ engine = "web"
    /\ max_pages = DeepWebPages
    /\ max_depth = DeepWebDepth
    /\ max_workers = 0
    /\ follow_external_links \in BOOLEAN
    /\ min_relevance_score = DefaultMinRelevance
    /\ CrawlerIdle
    /\ RateLimiterInit
    /\ default_delay = 1
    /\ domain_delays = <<>>
    /\ UtilIdle

\* the crawl of that web from https://example.com/news: a fetched page
\* carries any list of links to the three other pages
DeepWebNext ==
    \/ \E reachable \in BOOLEAN : WC_Crawl(Plain(SeedHost, SeedPath), reachable)
    \/ WC_Skip
    \/ WC_Visit
    \/ \E hrefs \in UNION { [1..n -> WebHrefs] : n \in 0..MaxLinks } :
          WC_CrawlPageOk(hrefs)
    \/ \E o \in FailOutcomes : WC_CrawlPageFail(o)
    \/ WC_Append
    \/ WC_Return

SpecDeepWeb == InitDeepWeb /\ [][DeepWebNext]_vars

\* AsyncWebScraper.crawl_async called with max_depth and max_pages
InitScraper ==
    /\ engine = "scraper"
    /\ max_pages \in 1..MaxPagesBound
    /\ max_depth \in 0..MaxDepthBound
    /\ max_workers = 0
    /\ follow_external_links = FALSE
    /\ min_relevance_score = DefaultMinRelevance
    /\ CrawlerIdle
    /\ RateLimiterInit
    /\ default_delay = 1
    /\ domain_delays = <<>>
    /\ UtilIdle

SpecScraper == InitScraper /\ [][AsyncWebScraperNext]_vars

\* a WebCrawler with max_depth 1 and max_pages 5 whose blocklist holds
\* doubleclick.net, on a web whose start page carries up to MaxPageLinks
\* links: to the page below it, to the advertising host, to the other host
InitWeb ==
    /\ engine = "web"
    /\ max_pages = 5
    /\ max_depth = 1
    /\ max_workers = 0
    /\ follow_external_links \in BOOLEAN
    /\ min_relevance_score = DefaultMinRelevance
    /\ CrawlerIdle
    /\ RateLimiterInit
    /\ default_delay = 1
    /\ domain_delays = <<>>
    /\ clock = 0
    /\ CacheIdle
    /\ human_behavior = TRUE
    /\ ScraperInit
    /\ BackoffIdle
    /\ AdaptiveIdle
    /\ ScoreIdle
    /\ RestIdle
    /\ blocked_domains = { <<"doubleclick", "net">> }
    /\ page_hrefs \in UNION { [1..n -> WebHrefs] : n \in 0..MaxPageLinks }

\* the crawl of that web from https://example.com/news: each page carries
\* the links the web gives it
WebNext ==
    \/ \E reachable \in BOOLEAN : WC_Crawl(Plain(SeedHost, SeedPath), reachable)
    \/ WC_Skip
    \/ WC_Visit
    \/ WC_CrawlPageOk(IF cur.depth = 0 THEN page_hrefs ELSE <<>>)
    \/ \E o \in FailOutcomes : WC_CrawlPageFail(o)
    \/ WC_Append
    \/ WC_Return

SpecWeb == InitWeb /\ [][WebNext]_vars

\* the start URLs of the crawls of one instance: on either host
ReuseSeeds == { Plain(SeedHost, SeedPath), Plain(OtherHost, SeedPath) }

\* a WebCrawler with max_depth 1 and max_pages 3 that is used for more than
\* one crawl, on a web where the page of each start URL carries the same
\* links
InitReuse ==
    /\ engine = "web"
    /\ max_pages = 3
    /\ max_depth = 1
    /\ max_workers = 0
    /\ follow_external_links \in BOOLEAN
    /\ min_relevance_score = DefaultMinRelevance
    /\ CrawlerIdle
    /\ RateLimiterInit
    /\ default_delay = 1
    /\ domain_delays = <<>>
    /\ clock = 0
    /\ CacheIdle
    /\ human_behavior = TRUE
    /\ ScraperInit
    /\ BackoffIdle
    /\ AdaptiveIdle
    /\ ScoreIdle
    /\ RestIdle
    /\ blocked_domains = {}
    /\ page_hrefs \in UNION { [1..n -> WebHrefs] : n \in 0..MaxLinks }

ReuseNext ==
    \/ \E s \in ReuseSeeds, reachable \in BOOLEAN : WC_Crawl(s, reachable)
    \/ \E s \in ReuseSeeds, reachable \in BOOLEAN : WC_CrawlAgain(s, reachable)
    \/ WC_Skip
    \/ WC_Visit
    \/ WC_CrawlPageOk(IF cur.depth = 0 THEN page_hrefs ELSE <<>>)
    \/ \E o \in FailOutcomes : WC_CrawlPageFail(o)
    \/ WC_Append
    \/ WC_Return

SpecReuse == InitReuse /\ [][ReuseNext]_vars

\* a SmartWebCrawler of depth 1 whose start page carries given anchors
InitSmartSeed ==
    /\ engine = "smart"
    /\ max_pages \in 1..MaxPagesBound
    /\ max_depth = 1
    /\ max_workers = 0
    /\ follow_external_links \in BOOLEAN
    /\ min_relevance_score \in MinRelevanceScores
    /\ CrawlerIdle
    /\ RateLimiterInit
    /\ default_delay = 1
    /\ domain_delays = <<>>
    /\ clock = 0
    /\ CacheIdle
    /\ human_behavior = TRUE
    /\ ScraperInit
    /\ BackoffIdle
    /\ AdaptiveIdle
    /\ ScoreIdle
    /\ RestIdle
    /\ blocked_domains = {}
    /\ page_hrefs \in AnchorLists

\* the crawl of that web from https://example.com/news
SmartSeedNext ==
    \/ \E reachable \in BOOLEAN : SM_Crawl(Plain(SeedHost, SeedPath), reachable)
    \/ SM_Skip
    \/ SM_Visit
    \/ \E c \in BOOLEAN :
          SM_ProcessPageOk(IF cur.depth = 0 THEN page_hrefs ELSE <<>>, c)
    \/ \E o \in FailOutcomes : SM_ProcessPageFail(o)
    \/ SM_Return

SpecSmartSeed == InitSmartSeed /\ [][SmartSeedNext]_vars

---------------------------------------------------------------------------
(* Properties                                                              *)

\* the page a URL names, whatever its spelling
page(u) == <<u.host, u.path>>

\* the number of CrawlResults recorded for url
results_for(url) == Cardinality({ i \in 1..Len(results) : results[i].url = url })

\* C1: WebCrawler.crawl never records two CrawlResults for one normalized
\* URL and never calls the fetch function twice for one normalized URL,
\* however the start URL and the links are spelled and however often a
\* link is queued.
C1_NoPageCrawledTwice ==
    engine = "web" =>
        /\ \A i, j \in 1..Len(results) :
              page(results[i].url) = page(results[j].url) => i = j
        /\ \A u, v \in DOMAIN fetch_calls :
              page(u) = page(v) =>
                 fetch_calls[u] + (IF u = v THEN 0 ELSE fetch_calls[v]) <= 1

\* C1 witness: two pages are crawled and the next queue entry is a URL that
\* is visited already, to be skipped at dequeue.
C1_DuplicateAtDequeue ==
    /\ engine = "web" /\ pc = "loop"
    /\ Len(results) >= 2
    /\ web_loop_condition
    /\ Head(queued_urls)[1] \in visited_urls

\* C2: in FastCrawler.crawl_concurrent and AsyncFastCrawler._worker a URL is
\* checked against visited_urls and marked in one step, so no URL is given
\* to two workers: the pages being processed and the CrawlResults recorded
\* never hold the same URL twice, and no URL is fetched twice.
C2_OneWorkerPerUrl ==
    engine \in {"fast", "async"} =>
        /\ \A i, j \in 1..Len(results) : results[i].url = results[j].url => i = j
        /\ \A i, j \in 1..Len(futures) : futures[i].url = futures[j].url => i = j
        /\ \A i \in 1..Len(futures) : results_for(futures[i].url) = 0
        /\ \A v, w \in workers : v.url = w.url => v = w
        /\ \A w \in workers : results_for(w.url) = 0
        /\ \A u \in DOMAIN fetch_calls : fetch_calls[u] <= 1

\* C2 witness: an async worker is fetching a URL while the same URL waits at
\* the head of the queue for the next worker.
C2_DuplicateWhileFetching ==
    /\ engine = "async" /\ pc = "join"
    /\ queued_urls # <<>>
    /\ \E w \in workers : w.url = Head(queued_urls)[1]
    /\ idle_workers > 0

\* C3: in WebCrawler.crawl and SmartWebCrawler.crawl the number of results
\* never exceeds max_pages, in any state of the crawl and on return.
C3_SequentialWithinBudget ==
    engine \in {"web", "smart"} => Len(results) <= max_pages

\* C3 witness: a crawl has returned with max_pages results and URLs left in
\* its queue.
C3_BudgetReached ==
    /\ engine \in {"web", "smart"} /\ pc = "done"
    /\ Len(results) = max_pages
    /\ queued_urls # <<>>

\* C4 as stated: FastCrawler.crawl_concurrent returns at most max_pages
\* results for every max_workers >= 1 and every order in which the futures
\* complete.
C4_FastWithinBudget ==
    (engine = "fast" /\ pc = "done") => Len(results) <= max_pages

\* C5 as stated: AsyncFastCrawler.crawl_async returns at most max_pages
\* results for every interleaving of its workers.
C5_AsyncWithinBudget ==
    (engine = "async" /\ pc = "done") => Len(results) <= max_pages

\* C6: with max_depth >= 0, no CrawlResult of WebCrawler, SmartWebCrawler or
\* FastCrawler has a depth above max_depth.
C6_DepthWithinLimit ==
    engine \in {"web", "smart", "fast"} =>
        \A i \in 1..Len(results) : results[i].depth <= max_depth

\* C6 witness: a page at depth max_depth has been crawled and a link found
\* one level deeper is at the head of the queue.
C6_DeeperLinkQueued ==
    /\ engine = "smart" /\ pc = "loop"
    /\ \E i \in 1..Len(results) : results[i].depth = max_depth
    /\ smart_loop_condition
    /\ Head(queued_urls)[2] > max_depth

\* at most one thread is inside the `with self.lock` block
OneCallerInside ==
    /\ Cardinality(lock) <= 1
    /\ Cardinality({ t \in Threads : callers[t].pc \in {"record", "sleep"} }) <= 1

\* a return of wait_if_needed for a domain comes no sooner than the domain's
\* delay after the previous return for that domain
ReturnsSeparated ==
    \A d \in Hosts :
        (returns'[d] # returns[d] /\ returns[d].time >= 0) =>
            returns'[d].time - returns[d].time >= get_delay_for_domain(d)

\* C7: RateLimiter.wait_if_needed, for any number of concurrent callers and
\* any interleaving: two consecutive returns for one domain are at least
\* get_delay_for_domain(domain) apart, and the callers are serialized (one
\* at a time between reading the last request time and recording the new).
C7_ReturnsSpacedAndSerialized ==
    []OneCallerInside /\ [][ReturnsSeparated]_vars

\* C7 witness: a domain has had two returns, a caller sleeps for it holding
\* the lock, and another caller for the same domain waits for the lock.
C7_CallerWaitsBehindSleeper ==
    \E d \in Hosts :
        /\ returns[d].time >= 0 /\ ~returns[d].flip
        /\ \E t, u \in Threads :
              /\ callers[t].pc = "sleep" /\ callers[t].domain = d
              /\ callers[u].pc = "acquire" /\ callers[u].domain = d

\* the step of crawl_page in which the fetch fails: the failure is written to
\* the result's error, failed_pages grows by exactly one, nothing is raised
FailureRecorded ==
    (engine = "web" /\ pc = "fetch" /\ pc' # "fetch"
       /\ last_outcome' \in FailOutcomes) =>
        /\ result'.error = last_outcome'
        /\ result'.url = cur.url
        /\ stats'.failed_pages = stats.failed_pages + 1
        /\ stats'.successful_pages = stats.successful_pages
        /\ raised' = "none" /\ pc' = "append"

\* the step after a failed page: the result is appended and the loop goes
\* on with the queue as it was
CrawlContinues ==
    (engine = "web" /\ pc = "append" /\ pc' # "append"
       /\ ~is_successful(result)) =>
        /\ results' = Append(results, Recorded(result))
        /\ queued_urls' = queued_urls
        /\ raised' = "none" /\ pc' = "loop"

\* C8: in WebCrawler.crawl a page that fails (the fetch raises, returns an
\* empty response, or gives up after its 429 retries) has the failure
\* recorded in its CrawlResult.error and counted once in failed_pages; the
\* exception does not leave crawl, which goes on with the queued URLs.
C8_FailureIsolated ==
    [][FailureRecorded /\ CrawlContinues]_vars

\* C8 witness: a page failed with an exhausted 429, was counted once, and a
\* page of another domain was crawled successfully after it.
C8_CrawledOnAfterFailure ==
    /\ engine = "web"
    /\ stats.failed_pages = 1
    /\ \E i, j \in 1..Len(results) :
          /\ i < j
          /\ results[i].error = "rate limit 429"
          /\ is_successful(results[j])
          /\ results[j].url.host # results[i].url.host

\* total_pages == successful_pages + failed_pages
StatsBalanced ==
    stats.total_pages = stats.successful_pages + stats.failed_pages

\* C9: total_pages == successful_pages + failed_pages whenever a page has
\* been completed in WebCrawler.crawl and SmartWebCrawler.crawl, and on
\* return from FastCrawler.crawl_concurrent.
C9_StatsBalanced ==
    /\ (engine = "web" /\ pc \in {"append", "loop", "done"}) => StatsBalanced
    /\ (engine = "smart" /\ pc \in {"loop", "done"}) => StatsBalanced
    /\ (engine = "fast" /\ pc = "done") => StatsBalanced

\* C9 witness: crawl_concurrent has returned after successful and failed
\* pages, one of them still being processed when the loop ended.
C9_FastReturnedWithBoth ==
    /\ engine = "fast" /\ pc = "done"
    /\ stats.successful_pages >= 1 /\ stats.failed_pages >= 1
    /\ futures # <<>>

\* C10 as stated: when FastCrawler.crawl_concurrent returns, every URL that
\* was marked visited and handed to a worker has exactly one CrawlResult.
C10_EveryHandedUrlHasResult ==
    (engine = "fast" /\ pc = "done") =>
        \A u \in handed : results_for(u) = 1


---------------------------------------------------------------------------
(* Properties of Cache                                                     *)

\* the key of the latest Cache call
last_key == generate_key(cache_last.url, cache_last.params)

\* this step is a call of Cache.get
GetStep == cache_last'.op = "get" /\ clock' = clock

\* the key Cache.get is called with in this step
get_key == generate_key(cache_last'.url, cache_last'.params)

\* C11: a Cache.get that directly follows Cache.set(url, data, ttl = t) with
\* t > 0, for the same url and params, returns data when the clock has not
\* moved since the set, and a miss when the clock has passed the time of the
\* set by more than t.
C11_SetThenGet ==
    [][(/\ GetStep
        /\ cache_last.op = "set" /\ cache_last.ttl > 0
        /\ get_key = last_key)
       => LET e == entry_of(metadata.entries, last_key)
          IN  /\ clock = e.created_at => cache_last'.ret = cache_last.data
              /\ clock > e.created_at + cache_last.ttl
                    => cache_last'.ret = Miss]_vars

\* C11 witness: a get has returned the data of an entry set in the same tick
C11_HitRightAfterSet ==
    /\ cache_last.op = "get" /\ cache_last.ret \in Data
    /\ has_entry(metadata.entries, last_key)
    /\ entry_of(metadata.entries, last_key).created_at = clock
    /\ clock > 0

\* the lookup has deleted the entry e: it is gone from the entries and its
\* size is subtracted from total_size
LookupDeleted(e) ==
    /\ ~has_entry(metadata'.entries, e.key)
    /\ metadata'.total_size = metadata.total_size - e.size

\* C12 as stated: a get of an entry with expires_at <= now returns a miss and
\* deletes the entry; a hit happens only when now < expires_at.
C12_HitOnlyBeforeExpiresAt ==
    [][(GetStep /\ has_entry(metadata.entries, get_key))
       => LET e == entry_of(metadata.entries, get_key)
          IN  /\ e.expires_at <= clock
                    => cache_last'.ret = Miss /\ LookupDeleted(e)
              /\ cache_last'.ret # Miss => clock < e.expires_at]_vars

\* C12 amended: a get of an entry with expires_at < now returns a miss and
\* deletes the entry; a hit happens only when now <= expires_at.
C12_HitOnlyUpToExpiresAt ==
    [][(GetStep /\ has_entry(metadata.entries, get_key))
       => LET e == entry_of(metadata.entries, get_key)
          IN  /\ e.expires_at < clock
                    => cache_last'.ret = Miss /\ LookupDeleted(e)
              /\ cache_last'.ret # Miss => clock <= e.expires_at]_vars

\* C12 witness: a get has found its entry expired and deleted it, while
\* another entry stays
C12_ExpiredEntryDeleted ==
    /\ cache_last.op = "get" /\ cache_last.expired
    /\ cache_last.ret = Miss
    /\ metadata.entries # <<>>

\* C13: when Cache.set has called _evict_oldest, no entry it retained is
\* older than one it removed, and the total_size it left is at most 80% of
\* max_size_bytes.
C13_EvictionReachesTarget ==
    (cache_last.op = "set" /\ cache_last.evicted)
    => /\ \A r \in cache_last.removed, k \in cache_last.retained : r <= k
       /\ cache_last.evict_total * 10 <= 8 * max_size_bytes

\* C14: the entry that Cache.set(url, data, ttl = t) has created, for every
\* t >= 0 the caller supplied, has expires_at = created_at + t.
C14_ExpiresAtIsCreatedAtPlusTtl ==
    (cache_last.op = "set" /\ cache_last.ttl # NoTtl)
    => LET e == entry_of(metadata.entries, last_key)
       IN  e.expires_at = e.created_at + cache_last.ttl

---------------------------------------------------------------------------
(* Properties of BaseScraper.fetch                                         *)

\* this step issues a request (self.session.request is called)
RequestIssued == requests_sent' = requests_sent + 1

GivesUpWith(type) ==
    /\ scraper_stats.rate_limited <= max_429_retries + 1
    /\ scraper_stats.rate_limited = max_429_retries + 1
          => /\ fetch_pc = "raised"
             /\ fetch_raised.type = type
             /\ fetch_raised.status = 429
             /\ fetch_raised.domain = netloc(fetch_url)
    /\ (fetch_pc = "raised" /\ fetch_raised.status = 429)
          => /\ scraper_stats.rate_limited = max_429_retries + 1
             /\ requests_sent = max_429_retries + 1
    /\ (fetch_pc = "returned" /\ ~response.cached)
          => response.status_code = 200

\* C16 as stated: when every request is answered 429, fetch gives up after
\* 3 retries and a RateLimitError naming the domain leaves it.
C16_RateLimitErrorSurfaces == GivesUpWith("RateLimitError")

\* C16 amended: when every request is answered 429, fetch gives up after
\* 3 retries and a requests.HTTPError whose message names the domain leaves it.
C16_HTTPErrorSurfaces == GivesUpWith("HTTPError")

\* C16 witness: fetch has given up after four 429 responses
C16_GaveUpAfterRetries ==
    /\ fetch_pc = "raised"
    /\ fetch_raised.status = 429
    /\ requests_sent = max_429_retries + 1
    /\ attempt = max_429_retries


---------------------------------------------------------------------------
(* Properties of ExponentialBackoff                                        *)

\* C17: the delays min(max_delay, base_delay * multiplier^attempt) that
\* successive get_delay calls compute without a reset (multiplier >= 1) are
\* non-decreasing and none exceeds max_delay.
C17_BackoffMonotoneAndCapped ==
    \A i \in 1..Len(backoff_delays) :
        /\ backoff_delays[i].computed <= backoff.max_delay
        /\ \A k \in 1..i : backoff_delays[k].computed <= backoff_delays[i].computed

\* C17 witness: the computed delay has grown and then met the cap
C17_GrownToCap ==
    /\ Len(backoff_delays) >= 3
    /\ backoff_delays[1].computed < backoff_delays[2].computed
    /\ backoff_delays[2].computed < backoff_delays[Len(backoff_delays)].computed
    /\ backoff_delays[Len(backoff_delays)].computed = backoff.max_delay
    /\ backoff.base_delay * power(backoff.multiplier, backoff.attempt - 1)
          > backoff.max_delay * power(10, backoff.attempt - 1)

---------------------------------------------------------------------------
(* AdaptiveRateLimiter                                                     *)

\* this step is a call op(domain) of the adaptive limiter
AdaptiveStep(op, domain) ==
    /\ adaptive_last'.flip # adaptive_last.flip
    /\ adaptive_last'.op = op
    /\ adaptive_last'.domain = domain

\* the delay of the domain after this step
delay_after(domain) ==
    IF domain \in DOMAIN domain_delays'
       THEN domain_delays'[domain] ELSE default_delay'

\* C18: record_success lowers the delay of a domain only when the call is
\* the fifth success in a row for that domain, none of them followed by a
\* record_error or an earlier lowering; the lowered delay is nine tenths of
\* the delay before, never below min_delay, and the success counter of the
\* domain restarts from 0.  No record_success call raises a delay that is
\* at or above min_delay, and no call touches another domain.
C18_DecreaseAfterFiveSuccesses ==
    [][\A d \in Hosts :
         AdaptiveStep("record_success", d) =>
            /\ delay_after(d) < get_delay_for_domain(d) =>
                  /\ streak[d] + 1 >= SuccessesToDecrease
                  /\ delay_after(d) >= adaptive.min_delay
                  /\ delay_after(d) =
                        Max(adaptive.min_delay,
                            (get_delay_for_domain(d) * DecreaseFactor) \div 10)
                  /\ success_count'[d] = 0
            /\ get_delay_for_domain(d) >= adaptive.min_delay =>
                  delay_after(d) <= get_delay_for_domain(d)
            /\ \A o \in Hosts \ {d} :
                  delay_after(o) = get_delay_for_domain(o)]_vars

\* record_success has just lowered the delay of a domain to the floor
\* min_delay and restarted its counter, while the other domain stands at
\* max_delay
C18_LoweredToMinDelay ==
    /\ engine = "adaptive"
    /\ adaptive_last.op = "record_success"
    /\ adaptive_last.domain = SeedHost
    /\ success_count[SeedHost] = 0
    /\ streak[SeedHost] = 0
    /\ SeedHost \in DOMAIN domain_delays
    /\ domain_delays[SeedHost] = adaptive.min_delay
    /\ default_delay > adaptive.min_delay
    /\ OtherHost \in DOMAIN domain_delays
    /\ domain_delays[OtherHost] = adaptive.max_delay

---------------------------------------------------------------------------
(* SmartWebCrawler: relevance of the frontier                              *)

\* C20: in SmartWebCrawler.crawl the start of the crawl puts the seed alone
\* in the frontier, and afterwards the frontier grows only at the end of a
\* page's processing, by exactly the links that _queue_relevant_links
\* queued, each at the depth of the page plus one and each with a relevance
\* score of at least min_relevance_score at that moment.
C20_QueuedLinksAreRelevant ==
    [][engine = "smart" =>
         \/ /\ pc = "idle"
            /\ Len(queued_urls') <= 1
            /\ \A i \in 1..Len(queued_urls') : queued_urls'[i][2] = 0
         \/ /\ pc \notin {"idle", "fetch"}
            /\ Len(queued_urls') <= Len(queued_urls)
         \/ /\ pc = "fetch"
            /\ Len(queued_urls') = Len(queued_urls) + Len(queued_scores')
            /\ \A i \in 1..Len(queued_scores') :
                  /\ queued_scores'[i][2] >= min_relevance_score
                  /\ <<queued_scores'[i][1], cur.depth + 1>>
                        \in { queued_urls'[k] : k \in 1..Len(queued_urls') }
            /\ \A k \in 1..Len(queued_urls') :
                  \/ queued_urls'[k] \in { queued_urls[i] : i \in 1..Len(queued_urls) }
                  \/ \E i \in 1..Len(queued_scores') :
                        queued_urls'[k] = <<queued_scores'[i][1], cur.depth + 1>>]_vars

\* the page just processed has queued two links: one of high relevance at
\* the front of the frontier, and one that only just reaches the threshold
\* at its back
C20_RelevantLinksQueued ==
    /\ engine = "smart"
    /\ pc = "loop"
    /\ Len(queued_scores) >= 2
    /\ \E i, j \in 1..Len(queued_scores) :
          /\ queued_scores[i][2] >= HighRelevance
          /\ queued_scores[j][2] >= min_relevance_score
          /\ queued_scores[j][2] < HighRelevance
          /\ Head(queued_urls)[1] = queued_scores[i][1]
          /\ queued_urls[Len(queued_urls)][1] = queued_scores[j][1]


---------------------------------------------------------------------------
(* RelevanceAnalyzer                                                       *)

\* the score the same arguments earn when the URL matches no unrelated
\* pattern
unpenalized_score == calculate_relevance_score([score_in EXCEPT !.unrelated = FALSE])

\* the scores of the signals present in the call
signal_scores == { signals(score_in)[i][1] : i \in 1..Len(signals(score_in)) }

\* C21: calculate_relevance_score returns a value in [0, 1] whatever subset
\* of the optional signals is present; without penalties it is the average
\* of the signals present with the weights renormalized over them, hence
\* between the lowest and the highest of their scores; and a URL matching
\* an unrelated pattern scores at most 0.1 times the score that the same
\* call returns for a URL matching none.
C21_ScoreInUnitInterval ==
    score_out # NoScore =>
       /\ score_out.den > 0
       /\ 0 <= score_out.num
       /\ score_out.num <= score_out.den
       /\ (~score_in.unrelated /\ ~score_in.link_text.navigation) =>
             \A lo, hi \in signal_scores :
                (\A sc \in signal_scores : lo <= sc /\ sc <= hi) =>
                   /\ lo * score_out.den <= 100 * score_out.num
                   /\ 100 * score_out.num <= hi * score_out.den
       /\ score_in.unrelated =>
             10 * score_out.num * unpenalized_score.den
                <= unpenalized_score.num * score_out.den

\* a call for an unrelated URL, with the link text as the only optional
\* signal, has returned a positive score
C21_PenalizedScore ==
    /\ engine = "score"
    /\ score_out # NoScore
    /\ score_in.unrelated
    /\ score_in.link_text.present
    /\ ~score_in.link_context.present
    /\ ~score_in.page_content.present
    /\ score_out.num > 0


---------------------------------------------------------------------------
(* WebCrawler: the start URL                                               *)

\* C22: WebCrawler.crawl called with a malformed start URL raises
\* CrawlError before any page is fetched: the malformed URL never enters
\* the frontier, is never marked visited or fetched and has no CrawlResult.
C22_MalformedSeedRejected ==
    engine = "web" =>
       /\ \A i \in 1..Len(queued_urls) : well_formed(queued_urls[i][1])
       /\ \A u \in visited_urls : well_formed(u)
       /\ \A u \in DOMAIN fetch_calls : well_formed(u)
       /\ \A i \in 1..Len(results) : well_formed(results[i].url)


---------------------------------------------------------------------------
(* WebCrawler: one crawl followed link by link                             *)

\* the start page links to /news/a, to ads.doubleclick.net/x and to /news/a
\* again
ScenarioPage ==
    << Plain(SeedHost, SubPath), Plain(AdHost, OtherPath), Plain(SeedHost, SubPath) >>

\* the crawl of that web has returned, the start page having been fetched
\* without error
ScenarioDone ==
    /\ engine = "web"
    /\ pc = "done"
    /\ page_hrefs = ScenarioPage
    /\ results # <<>>
    /\ is_successful(results[1])

\* C23 as stated: the crawl yields exactly 3 results.
C23_ThreeResults == ScenarioDone => Len(results) = 3

\* C23: the crawl yields exactly 2 results, the start page at depth 0 and
\* /news/a at depth 1, fetched once; the advertising link is never queued,
\* visited or fetched, with or without external links being followed.
C23_TwoResults ==
    ScenarioDone =>
       /\ Len(results) = 2
       /\ results[1].url = Plain(SeedHost, SeedPath) /\ results[1].depth = 0
       /\ results[2].url = Plain(SeedHost, SubPath) /\ results[2].depth = 1
       /\ fetch_calls[Plain(SeedHost, SubPath)] = 1
       /\ Plain(AdHost, OtherPath) \notin visited_urls

\* that crawl has returned with both pages fetched without error, external
\* links being followed
C23_ScenarioCrawled ==
    /\ ScenarioDone
    /\ follow_external_links
    /\ Len(results) = 2
    /\ is_successful(results[2])
    /\ stats.total_links_found = 2


---------------------------------------------------------------------------
(* FastCrawler: domain policy                                              *)

\* C24: FastCrawler.crawl_concurrent never queues, submits or fetches a URL
\* whose host differs from the host of the start URL.
C24_FastStaysOnSeedDomain ==
    engine = "fast" =>
       /\ \A i \in 1..Len(queued_urls) : netloc(queued_urls[i][1]) = SeedHost
       /\ \A i \in 1..Len(futures) : netloc(futures[i].url) = SeedHost
       /\ \A u \in visited_urls : netloc(u) = SeedHost
       /\ \A u \in DOMAIN fetch_calls : netloc(u) = SeedHost


---------------------------------------------------------------------------
(* RateLimiter: callers of different domains                               *)

\* C25: wait_if_needed holds no lock while it sleeps: while one caller
\* sleeps for its domain, a caller that has arrived at the lock for another
\* domain and needs no wait can take the lock and return.
C25_NoBlockingAcrossDomains ==
    \A t, u \in Threads :
       (/\ callers[t].pc = "sleep"
        /\ callers[u].pc = "acquire"
        /\ callers[u].domain # callers[t].domain
        /\ now - last_request_time[callers[u].domain]
              >= get_delay_for_domain(callers[u].domain))
          => lock_acquired(u)


---------------------------------------------------------------------------
(* AsyncFastCrawler: cadence per domain                                    *)

\* C26: in AsyncFastCrawler.crawl_async two fetches to one domain never
\* start less than the domain's required delay apart.
C26_AsyncFetchesSpaced ==
    engine = "async" =>
       \A v, w \in workers :
          (v # w /\ netloc(v.url) = netloc(w.url)) =>
             \/ v.started - w.started >= get_delay_for_domain(netloc(v.url))
             \/ w.started - v.started >= get_delay_for_domain(netloc(v.url))


---------------------------------------------------------------------------
(* AsyncWebScraper: failed pages                                           *)

\* C27: in AsyncWebScraper.crawl_async every page that has been fetched,
\* with or without success, has a CrawlResult once its iteration is over,
\* and a page whose fetch failed has the error recorded on its result.
C27_FailedPageHasResult ==
    (engine = "scraper" /\ pc \in {"loop", "done"}) =>
       \A u \in DOMAIN fetch_calls :
          \E i \in 1..Len(results) : results[i].url = u



---------------------------------------------------------------------------
(* SmartWebCrawler: order of the high-relevance links                      *)

---------------------------------------------------------------------------
(* WebCrawler: order of the frontier                                       *)

\* the depths of the results, of the page being crawled and of the
\* frontier, in the order in which the pages are or will be fetched
fetch_order_depths ==
    [i \in 1..Len(results) |-> results[i].depth]
      \o (IF pc = "fetch" THEN <<cur.depth>> ELSE <<>>)
      \o [i \in 1..Len(queued_urls) |-> queued_urls[i][2]]

\* sub holds elements of seq in the order they have in seq
RECURSIVE in_order_of(_, _)
in_order_of(sub, seq) ==
    IF sub = <<>> THEN TRUE
    ELSE IF seq = <<>> THEN FALSE
    ELSE IF Head(sub) = Head(seq) THEN in_order_of(Tail(sub), Tail(seq))
    ELSE in_order_of(sub, Tail(seq))

\* C29: the frontier of WebCrawler.crawl is first in, first out.  The depths
\* of the results, followed by those of the URLs still queued, never
\* decrease; the loop takes URLs from the front of the frontier only, and
\* the page it fetches is the one it took; the links of a page join the
\* frontier at its back, at the page's depth plus one, in the order in which
\* the page's result lists them.
C29_FrontierIsFifo ==
    /\ [](engine = "web" =>
            \A i, j \in 1..Len(fetch_order_depths) :
               i < j => fetch_order_depths[i] <= fetch_order_depths[j])
    /\ [][(engine = "web" /\ pc = "loop") =>
            \/ queued_urls' = queued_urls
            \/ /\ queued_urls' = Tail(queued_urls)
               /\ pc' = "fetch" =>
                     cur' = [url |-> Head(queued_urls)[1],
                             depth |-> Head(queued_urls)[2]]]_vars
    /\ [][(engine = "web" /\ pc = "fetch") =>
            /\ queued_urls' = queued_urls
            /\ result'.url = cur.url /\ result'.depth = cur.depth]_vars
    /\ [][(engine = "web" /\ pc = "append") =>
            /\ results' = Append(results, Recorded(result))
            /\ Len(queued_urls') >= Len(queued_urls)
            /\ SubSeq(queued_urls', 1, Len(queued_urls)) = queued_urls
            /\ \A k \in (Len(queued_urls) + 1)..Len(queued_urls') :
                  queued_urls'[k][2] = result.depth + 1
            /\ in_order_of(
                  [k \in 1..(Len(queued_urls') - Len(queued_urls)) |->
                      queued_urls'[Len(queued_urls) + k][1]],
                  result.links)]_vars

\* the crawl has returned four results: the start page, its two links in
\* the order the page gave them, then a link of the first of them
C29_BreadthFirstCrawl ==
    /\ engine = "web"
    /\ pc = "done"
    /\ max_depth = DeepWebDepth
    /\ Len(results) = DeepWebPages
    /\ results[2].url = Plain(SeedHost, SubPath) /\ results[2].depth = 1
    /\ results[3].url = Plain(OtherHost, OtherPath) /\ results[3].depth = 1
    /\ results[4].url = Plain(AdHost, OtherPath) /\ results[4].depth = 2
    /\ fetch_calls[Plain(SeedHost, SubPath)] = 1



---------------------------------------------------------------------------
(* WebCrawler and FastCrawler: termination                                 *)

\* C30: WebCrawler.crawl and FastCrawler.crawl_concurrent end, whatever
\* links the pages carry (links back to pages crawled before included), when
\* every fetch returns or raises; and they return only with the frontier
\* empty and no fetch waited for, or with the page budget reached.
C30_CrawlTerminates ==
    /\ <>(pc \in {"done", "raised"})
    /\ [](pc = "done" =>
            \/ queued_urls = <<>> /\ futures = <<>>
            \/ Len(results) >= max_pages)

\* FastCrawler has returned below its budget, the frontier empty: it has
\* fetched two pages, and a link back to a page crawled before was dropped
C30_FastRanOutOfLinks ==
    /\ engine = "fast"
    /\ pc = "done"
    /\ queued_urls = <<>> /\ futures = <<>>
    /\ Len(results) < max_pages
    /\ Cardinality(visited_urls) = 2
    /\ stats.total_pages = 2
    /\ \E u \in DOMAIN fetch_calls : fetch_calls[u] = 1



---------------------------------------------------------------------------
(* AsyncFastCrawler: termination                                           *)

\* C31: in AsyncFastCrawler.crawl_async every item taken from the queue gets
\* exactly one task_done, whether it is processed, skipped or its worker
\* meets an error: the queue's unfinished tasks are the items still queued
\* plus those a worker is processing.  So queue.join() returns in the end,
\* and then the queue is empty and no worker is processing a page.
C31_AsyncCrawlTerminates ==
    /\ [](unfinished = Len(queued_urls) + Cardinality(workers))
    /\ <>(pc = "done")
    /\ [](pc = "done" => queued_urls = <<>> /\ workers = {})

\* crawl_async has returned after a worker met an error on one page and
\* items were skipped: more was put than was processed
C31_ReturnedAfterWorkerError ==
    /\ engine = "async"
    /\ pc = "done"
    /\ last_outcome = "worker error"
    /\ unfinished = 0
    /\ Len(results) >= 2
    /\ Len(results) = stats.total_pages



---------------------------------------------------------------------------
(* BaseScraper: the response cache                                         *)

\* C32: when a call of fetch with use_cache has completed a GET with status
\* 200, the next call for the same URL with the same headers and use_cache,
\* made less than cache_ttl later, is served from the cache and sends no
\* request.
C32_SecondFetchServedFromCache ==
    [][(/\ engine = "session"
        /\ fetch_log.seq > 0
        /\ fetch_log.status = 200 /\ fetch_log.use_cache
        /\ fetch_log'.seq = fetch_log.seq + 1
        /\ fetch_log'.url = fetch_log.url
        /\ fetch_log'.headers = fetch_log.headers
        /\ fetch_log'.use_cache
        /\ clock - fetch_log.time < cache_ttl)
       => /\ fetch_log'.from_cache
          /\ requests_sent' = requests_sent]_vars



---------------------------------------------------------------------------
(* SmartWebCrawler: identity of the seed                                   *)

---------------------------------------------------------------------------
(* BaseScraper.fetch: the 429 loop                                         *)

\* this step of fetch sleeps: the delay before the first request, the
\* delay after a 429 response, or the delay after the response returned
Slept ==
    \/ fetch_pc \in {"idle", "sleep"} /\ clock' > clock
    \/ fetch_pc = "request" /\ fetch_pc' = "returned" /\ clock' > response_time'

\* this step is the sleep between a 429 response and the next attempt
SleptFor429 ==
    /\ fetch_pc = "sleep" /\ response.status_code = 429
    /\ fetch_pc' = "request" /\ attempt' = attempt + 1

\* at most max_429_retries + 1 requests per call; only a request answered
\* 429 is followed by another attempt, one answered by another error status
\* or ended by an exception ends the call with that error, and no request
\* follows the end of the call
RequestsBounded ==
    /\ [](engine = "fetch" => requests_sent <= max_429_retries + 1)
    /\ [][(engine = "fetch" /\ RequestIssued) =>
            /\ fetch_pc = "request"
            /\ fetch_pc' \in {"sleep", "returned", "raised"}
            /\ fetch_pc' = "sleep" =>
                  response'.status_code = 429 /\ response_time' = clock'
            /\ fetch_pc' = "returned" => response'.status_code = 200
            /\ response'.status_code \notin {200, 429} => fetch_pc' = "raised"
            /\ fetch_pc' = "raised" =>
                  fetch_raised'.type \in {"HTTPError"} \cup RequestExceptions]_vars
    /\ [][(engine = "fetch" /\ fetch_pc \in {"raised", "returned"})
           => UNCHANGED <<requests_sent, clock>>]_vars

---------------------------------------------------------------------------
(* BaseScraper: the delay before a request                                 *)

\* C35: a call of fetch that goes to the network, human_behavior being on,
\* sleeps the human-like delay before its request exactly when the scraper
\* has sent a request before: the first request of the instance is sent
\* without that delay.
C35_NoDelayBeforeFirstRequest ==
    [][(/\ engine = "session"
        /\ human_behavior
        /\ fetch_log'.seq = fetch_log.seq + 1
        /\ ~fetch_log'.from_cache)
       => (fetch_log'.pre_delay <=> ~fetch_log'.first_request)]_vars



---------------------------------------------------------------------------
(* SmartWebCrawler: the links of the seed page                             *)

\* C36: once SmartWebCrawler.crawl has processed the start page and analysed
\* it as the seed, every link of that page that passes the URL filters and
\* scores at least min_relevance_score against the seed has been queued
\* (the page has fewer links than the cap of 10), whatever it scored before
\* the seed was analysed.
C36_SeedLinksQueuedByBaselineScore ==
    (/\ engine = "smart"
     /\ pc = "loop"
     /\ Len(results) = 1 /\ is_successful(results[1])
     /\ seed_analyzed)
    => \A k \in 1..Len(page_hrefs) :
          (/\ smart_should_follow_url(WebCrawler_normalize_url(page_hrefs[k].href))
           /\ WebCrawler_normalize_url(page_hrefs[k].href) \notin visited_urls
           /\ relevance_score(page_hrefs[k], TRUE) >= min_relevance_score)
          => \E i \in 1..Len(queued_scores) :
                queued_scores[i][1] = WebCrawler_normalize_url(page_hrefs[k].href)



---------------------------------------------------------------------------
(* AdaptiveRateLimiter: the range of the delays                            *)

\* the limiter was constructed with min_delay <= default_delay <= max_delay
\* and a backoff_factor of at least 1.0
DelaysWellOrdered ==
    /\ adaptive.min_delay <= default_delay
    /\ default_delay <= adaptive.max_delay
    /\ adaptive.backoff_factor >= 10

\* C37: for an AdaptiveRateLimiter constructed with min_delay <=
\* default_delay <= max_delay and backoff_factor >= 1, after any sequence of
\* record_success and record_error calls for any domains (each call runs
\* under the lock, so every interleaving is a sequence of whole calls), the
\* delay get_delay_for_domain returns for every domain lies within
\* [min_delay, max_delay].
C37_DelayWithinBounds ==
    (engine = "adaptive" /\ DelaysWellOrdered)
    => \A d \in Hosts :
          /\ adaptive.min_delay <= get_delay_for_domain(d)
          /\ get_delay_for_domain(d) <= adaptive.max_delay

\* one domain has been raised to max_delay by an error, another lowered to
\* min_delay by successes
C37_BothBoundsReached ==
    /\ engine = "adaptive"
    /\ DelaysWellOrdered
    /\ adaptive_last.op = "record_error"
    /\ \E d1, d2 \in DOMAIN domain_delays :
          /\ d1 = adaptive_last.domain
          /\ domain_delays[d1] = adaptive.max_delay
          /\ domain_delays[d2] = adaptive.min_delay
          /\ adaptive.min_delay < default_delay



---------------------------------------------------------------------------
(* Cache: the accounting of total_size                                     *)

\* sum(entry['size'] for entry in metadata['entries'].values())
RECURSIVE size_of_entries(_)
size_of_entries(entries) ==
    IF entries = <<>> THEN 0
    ELSE Head(entries).size + size_of_entries(Tail(entries))

\* C38: after any sequence of Cache.set, get, delete, clear and evictions,
\* a set on an already cached key included, metadata['total_size'] equals
\* the sum of the 'size' fields of the entries in metadata['entries'].
C38_TotalSizeIsSumOfEntries ==
    engine = "cache" => metadata.total_size = size_of_entries(metadata.entries)



---------------------------------------------------------------------------
(* RequestQueue: the slots                                                 *)

\* C39: for any interleaving of acquire(), release() and `with queue:`
\* blocks by concurrent threads, 0 <= active_requests <= max_concurrent in
\* every state, and the number of threads that have acquired a slot and not
\* yet released it never exceeds max_concurrent.
C39_SlotsBounded ==
    engine = "queue"
    => /\ 0 <= active_requests
       /\ active_requests <= max_concurrent
       /\ Cardinality(slot_holders) <= max_concurrent



---------------------------------------------------------------------------
(* WebCrawler: one instance used for several crawls                        *)

\* what a new WebCrawler of the same configuration queues after the page of
\* start_url: its links that are valid and on the domain the crawl may
\* follow, which for a new instance is the domain of that first page
frontier_of_new_instance(start_url) ==
    MapSeq(LAMBDA l : <<l, 1>>,
           SelectSeq(MapSeq(WebCrawler_normalize_url, page_hrefs),
                     LAMBDA u : /\ u # start_url
                                /\ is_valid_url(u, netloc(start_url))
                                /\ should_follow_url(u, netloc(start_url))))

\* C40: the runs on one WebCrawler instance are independent: crawl() resets
\* all per-run state, so a crawl from a seed gives the same results whether
\* or not the instance crawled another seed before.  Followed at the first
\* page of a later crawl: the links queued after it are those a new instance
\* queues.
C40_LaterRunAsNewInstance ==
    (/\ engine = "web"
     /\ runs >= 1
     /\ pc = "loop"
     /\ Len(results) = 1 /\ is_successful(results[1]))
    => queued_urls = frontier_of_new_instance(results[1].url)


===========================================================================
